---------------------------- MODULE Spec2Model ----------------------------
(***************************************************************************)
(* A model of the sigil library (nominal identity for classes): the        *)
(* process-wide symbol table (Symbol.for), the label registry              *)
(* (SigilRegistry behind the live REGISTRY binding), the identity attacher *)
(* (decorateCtor), the inheritance validator (checkInheritance), the entry *)
(* points (Sigilify, withSigil, withSigilTyped, WithSigil), instance       *)
(* construction, and the queries isOfType / isOfTypeStrict.                *)
(*                                                                         *)
(* A class is a number of 1..NumClasses; its static properties are the     *)
(* per-class variables below, which hold a class's OWN properties.  A read *)
(* of a static property in the code (ctor[__LABEL__], ctor.SigilType, ...) *)
(* walks the prototype chain, which is what the Get... operators do.       *)
(***************************************************************************)
EXTENDS Integers, Sequences, FiniteSets, TLC

\* The bound of the model: the user classes below Sigil that the calls of
\* Spec identify and construct, class A extends Sigil, class B extends A, ...
\* (SpecDeep goes one class deeper).
ChainDepth == 2

\* The classes of the model.
Plain == 1               \* a plain class, `class X {}`
Sigil == 2               \* export const Sigil = Sigilify(class {}, 'Sigil')
SigilError == 3          \* export const SigilError = Sigilify(Error, 'SigilError')
Root == 4                \* the class a user's Sigilify(Plain, ...) call creates
FirstSub == 5            \* class A extends Sigil {}; then B extends A, C extends B ...
NumClasses == FirstSub + ChainDepth
Reloaded == NumClasses + 1   \* class A extends Sigil {} evaluated again (hot reload)
Classes == 1..Reloaded
SubClasses == FirstSub..NumClasses
ShallowSubClasses == FirstSub..(NumClasses - 1)
NoClass == 0             \* no class: the end of a prototype chain, a null class reference

\* Object.getPrototypeOf(ctor) restricted to the classes of the model.
ParentOf(c) ==
  IF c = Root THEN Plain
  ELSE IF c = FirstSub \/ c = Reloaded THEN Sigil
  ELSE IF c > FirstSub THEN c - 1
  ELSE NoClass

\* ctor.name: every class Sigilify returns is declared `class Sigilified`.
SubNames == <<"A", "B", "C", "D", "E", "F">>
Name(c) ==
  IF c = Plain THEN "X"
  ELSE IF c \in {Sigil, SigilError, Root} THEN "Sigilified"
  ELSE IF c = Reloaded THEN SubNames[1]
  ELSE SubNames[c - FirstSub + 1]

\* Labels.  NoLabel is the label argument left out (or the empty string,
\* which `if (label)` treats alike), and an absent __LABEL__ property.
NoLabel == ""
UserLabels == {"@t.L1", "@t.L2"}      \* the explicit labels a caller passes
RandomStrings == {"r1"}                \* what generateRandomString may return
AutoPrefix == "@Sigil.auto-"
NoSymbol == 0

Range(s) == {s[i] : i \in 1..Len(s)}

VARIABLES
  label,      \* own __LABEL__ of each class (NoLabel: none)
  type,       \* own __TYPE__ of each class (NoSymbol: none)
  lineage,    \* own __TYPE_LINEAGE__ of each class (<<>>: none)
  typeSet,    \* own __TYPE_SET__ of each class ({}: none)
  decorated,  \* own __DECORATED__ mark
  sigil,      \* own __SIGIL__ mark
  checked,    \* own __INHERITANCE_CHECKED__ mark
  symtab,     \* the global symbol registry behind Symbol.for: key -> symbol
  registry,   \* the map of the active SigilRegistry: label -> class or NoClass (null)
  options,    \* the OPTIONS object
  instances,  \* the classes of which an instance has been constructed
  copyType,   \* label -> __TYPE__ of the class a second copy gave that label
  copy,       \* the second copy of the library: whether its module has been
              \* evaluated, its devMarker, and the map of its own registry,
              \* label -> name of the class registered
  globalRegistry,  \* whose registry globalThis[__SIGIL_REGISTRY__] holds:
                   \* "first" (this copy's OPTIONS.registry), "second", "none"
  held,       \* the array or the set a caller got last from a lineage
              \* accessor and may have mutated since
  origin,     \* history of each registry entry: the class that registered the
              \* label, and whether storeConstructor was on at the registration
              \* and at every merge that copied the entry since
  err         \* the error the last call raised ("none": it returned)

vars == <<label, type, lineage, typeSet, decorated, sigil, checked, symtab,
          registry, options, instances, copyType, copy, globalRegistry,
          held, origin, err>>

\* The state the functional operators below transform.
World ==
  [label |-> label, type |-> type, lineage |-> lineage, typeSet |-> typeSet,
   decorated |-> decorated, sigil |-> sigil, checked |-> checked,
   symtab |-> symtab, registry |-> registry, options |-> options,
   origin |-> origin, global |-> globalRegistry, err |-> "none"]

Throw(w, e) == [w EXCEPT !.err = e]

\* `opts?.field ?? OPTIONS.field`
Opt(w, opts, field) ==
  IF field \in DOMAIN opts THEN opts[field] ELSE w.options[field]
NoOpts == <<>>

---------------------------------------------------------------------------
\* Prototype-chain reads of the static properties.

RECURSIVE GetLabel(_, _), GetType(_, _), GetLineage(_, _), GetTypeSet(_, _),
          IsSigilCtor(_, _)

\* SigilLabel reading the own __LABEL__ of the class only.
GetOwnLabel(w, c) == IF c = NoClass THEN NoLabel ELSE w.label[c]

GetLabel(w, c) ==
  IF c = NoClass THEN NoLabel
  ELSE IF w.label[c] # NoLabel THEN w.label[c]
  ELSE GetLabel(w, ParentOf(c))

GetType(w, c) ==
  IF c = NoClass THEN NoSymbol
  ELSE IF w.type[c] # NoSymbol THEN w.type[c]
  ELSE GetType(w, ParentOf(c))

GetLineage(w, c) ==
  IF c = NoClass THEN <<>>
  ELSE IF w.lineage[c] # <<>> THEN w.lineage[c]
  ELSE GetLineage(w, ParentOf(c))

GetTypeSet(w, c) ==
  IF c = NoClass THEN {}
  ELSE IF w.typeSet[c] # {} THEN w.typeSet[c]
  ELSE GetTypeSet(w, ParentOf(c))

IsSigilCtor(w, c) ==
  IF c = NoClass THEN FALSE
  ELSE IF w.sigil[c] THEN TRUE
  ELSE IsSigilCtor(w, ParentOf(c))

\* The class on the prototype chain of c whose own property a read finds.
RECURSIVE LineageOwner(_, _), TypeSetOwner(_, _)
LineageOwner(w, c) ==
  IF c = NoClass THEN NoClass
  ELSE IF w.lineage[c] # <<>> THEN c
  ELSE LineageOwner(w, ParentOf(c))
TypeSetOwner(w, c) ==
  IF c = NoClass THEN NoClass
  ELSE IF w.typeSet[c] # {} THEN c
  ELSE TypeSetOwner(w, ParentOf(c))

IsDecorated(w, c) == w.decorated[c]
IsInheritanceChecked(w, c) == w.checked[c]

---------------------------------------------------------------------------
\* Symbol.for(key): the symbol the global symbol registry holds for key, a
\* fresh one being created on first use.
SymbolForFresh(w, key) ==
  [w EXCEPT !.symtab =
     (key :> (Cardinality(DOMAIN w.symtab) + 1)) @@
     [k \in DOMAIN @ \ {key} |-> @[k]]]

SymbolFor(w, key) ==
  IF key \in DOMAIN w.symtab THEN w
  ELSE [w EXCEPT !.symtab = (key :> (Cardinality(DOMAIN w.symtab) + 1)) @@ @]

\* SigilRegistry.has / get of the live REGISTRY binding.
RegistryHas(w, l) == l \in DOMAIN w.registry
RegistryGet(w, l) == IF l \in DOMAIN w.registry THEN w.registry[l] ELSE NoClass

\* existing?.name === Class?.name, a null reference having no name.
SameName(c1, c2) ==
  IF c1 = NoClass \/ c2 = NoClass THEN c1 = c2 ELSE Name(c1) = Name(c2)

\* register without the test of OPTIONS.registry.
RegisterNoGuard(w, l, c, opts) ==
  IF RegistryHas(w, l)
    THEN IF Opt(w, opts, "devMarker") /\ SameName(RegistryGet(w, l), c) THEN w
         ELSE Throw(w, "DuplicateLabel")
    ELSE [w EXCEPT !.registry =
            (l :> (IF Opt(w, opts, "storeConstructor") THEN c ELSE NoClass)) @@ @,
                   !.origin =
            (l :> [by |-> c, stored |-> Opt(w, opts, "storeConstructor")]) @@ @]

\* register storing the class whatever storeConstructor says.
RegisterStoreAlways(w, l, c, opts) ==
  IF ~w.options.registryOn THEN w
  ELSE IF RegistryHas(w, l)
    THEN IF Opt(w, opts, "devMarker") /\ SameName(RegistryGet(w, l), c) THEN w
         ELSE Throw(w, "DuplicateLabel")
    ELSE [w EXCEPT !.registry = (l :> c) @@ @,
                   !.origin =
            (l :> [by |-> c, stored |-> Opt(w, opts, "storeConstructor")]) @@ @]

\* register lenient in dev mode whatever the names of the classes.
RegisterLenient(w, l, c, opts) ==
  IF ~w.options.registryOn THEN w
  ELSE IF RegistryHas(w, l)
    THEN IF Opt(w, opts, "devMarker") THEN w
         ELSE Throw(w, "DuplicateLabel")
    ELSE [w EXCEPT !.registry =
            (l :> (IF Opt(w, opts, "storeConstructor") THEN c ELSE NoClass)) @@ @,
                   !.origin =
            (l :> [by |-> c, stored |-> Opt(w, opts, "storeConstructor")]) @@ @]

\* register replacing the entry of a label that is taken.
RegisterOverwrite(w, l, c, opts) ==
  IF ~w.options.registryOn THEN w
  ELSE [w EXCEPT !.registry =
          (l :> (IF Opt(w, opts, "storeConstructor") THEN c ELSE NoClass)) @@ @]

\* SigilRegistry.register(label, Class, opts)
Register(w, l, c, opts) ==
  IF ~w.options.registryOn THEN w
  ELSE IF RegistryHas(w, l)
    THEN IF Opt(w, opts, "devMarker")
           THEN IF SameName(w.registry[l], c) THEN w
                ELSE Throw(w, "DuplicateLabel")
           ELSE Throw(w, "DuplicateLabel")
    ELSE [w EXCEPT !.registry =
            (l :> (IF Opt(w, opts, "storeConstructor") THEN c ELSE NoClass)) @@ @,
                   !.origin =
            (l :> [by |-> c, stored |-> Opt(w, opts, "storeConstructor")]) @@ @]

\* decorateCtor(ctor, label)
\* decorateCtor building __TYPE_SET__ from the parent's lineage alone.
DecorateCtorParentSet(w, c, l) ==
  IF IsDecorated(w, c) THEN Throw(w, "AlreadyDecorated")
  ELSE
    LET w1 == SymbolFor(w, l)
        symbol == w1.symtab[l]
        w2 == Register(w1, l, c, NoOpts)
        parentChain == GetLineage(w2, ParentOf(c))
        ctorChain == Append(parentChain, symbol)
    IN IF w2.err # "none" THEN w2
       ELSE [w2 EXCEPT !.label[c] = l, !.type[c] = symbol,
                       !.lineage[c] = ctorChain,
                       !.typeSet[c] = Range(parentChain) \cup {NoSymbol},
                       !.decorated[c] = TRUE]

\* decorateCtor that never registers the label.
DecorateCtorNoRegister(w, c, l) ==
  IF IsDecorated(w, c) THEN Throw(w, "AlreadyDecorated")
  ELSE
    LET w1 == SymbolFor(w, l)
        symbol == w1.symtab[l]
        parentChain == GetLineage(w1, ParentOf(c))
        ctorChain == Append(parentChain, symbol)
    IN [w1 EXCEPT !.label[c] = l,
                  !.type[c] = symbol,
                  !.lineage[c] = ctorChain,
                  !.typeSet[c] = Range(ctorChain),
                  !.decorated[c] = TRUE]

\* decorateCtor defining __LABEL__ before it registers the label.
DecorateCtorBindFirst(w, c, l) ==
  IF IsDecorated(w, c) THEN Throw(w, "AlreadyDecorated")
  ELSE
    LET w1 == SymbolFor(w, l)
        symbol == w1.symtab[l]
        w2 == Register([w1 EXCEPT !.label[c] = l], l, c, NoOpts)
        parentChain == GetLineage(w2, ParentOf(c))
        ctorChain == Append(parentChain, symbol)
    IN IF w2.err # "none" THEN w2
       ELSE [w2 EXCEPT !.type[c] = symbol,
                       !.lineage[c] = ctorChain,
                       !.typeSet[c] = Range(ctorChain),
                       !.decorated[c] = TRUE]

\* decorateCtor pushing the symbol onto the parent's array instead of
\* copying it.
DecorateCtorPushParent(w, c, l) ==
  IF IsDecorated(w, c) THEN Throw(w, "AlreadyDecorated")
  ELSE
    LET w1 == SymbolFor(w, l)
        symbol == w1.symtab[l]
        w2 == Register(w1, l, c, NoOpts)
        parentChain == GetLineage(w2, ParentOf(c))
        ctorChain == Append(parentChain, symbol)
        owner == LineageOwner(w2, ParentOf(c))
        w3 == IF owner = NoClass THEN w2
              ELSE [w2 EXCEPT !.lineage[owner] = ctorChain]
    IN IF w2.err # "none" THEN w2
       ELSE [w3 EXCEPT !.label[c] = l, !.type[c] = symbol,
                       !.lineage[c] = ctorChain,
                       !.typeSet[c] = Range(ctorChain),
                       !.decorated[c] = TRUE]

\* decorateCtor without the test of the __DECORATED__ mark.
DecorateCtorNoGuard(w, c, l) ==
  LET w1 == SymbolFor(w, l)
      symbol == w1.symtab[l]
      w2 == Register(w1, l, c, NoOpts)
      parentChain == GetLineage(w2, ParentOf(c))
      ctorChain == Append(parentChain, symbol)
  IN IF w2.err # "none" THEN w2
     ELSE [w2 EXCEPT !.label[c] = l, !.type[c] = symbol,
                     !.lineage[c] = ctorChain,
                     !.typeSet[c] = Range(ctorChain),
                     !.decorated[c] = TRUE]

DecorateCtor(w, c, l) ==
  IF IsDecorated(w, c) THEN Throw(w, "AlreadyDecorated")
  ELSE
    LET w1 == SymbolFor(w, l)
        symbol == w1.symtab[l]
        w2 == Register(w1, l, c, NoOpts)
        parentChain == GetLineage(w2, ParentOf(c))
        ctorChain == Append(parentChain, symbol)
    IN IF w2.err # "none" THEN w2
       ELSE [w2 EXCEPT !.label[c] = l,
                       !.type[c] = symbol,
                       !.lineage[c] = ctorChain,
                       !.typeSet[c] = Range(ctorChain),
                       !.decorated[c] = TRUE]


---------------------------------------------------------------------------
\* Label validation and generation.

\* The labels of the model that DEFAULT_LABEL_REGEX matches,
\* /^@[\w-]+(?:\/[\w-]+)*\.[A-Z][A-Za-z0-9]*$/ : "Sigil" has no scope, and a
\* generated label continues with a lower-case letter after the dot.
MatchesDefaultRegex(l) == l \in UserLabels

\* verifyLabel reading the global rule only.
VerifyLabelGlobalOnly(w, l, opts) ==
  IF w.options.labelValidation = "none" THEN w
  ELSE IF MatchesDefaultRegex(l) THEN w
  ELSE Throw(w, "InvalidLabel")

\* verifyLabel(label, opts): labelValidation is null ("none") or a rule.
VerifyLabel(w, l, opts) ==
  LET labelValidation == Opt(w, opts, "labelValidation")
  IN IF labelValidation = "none" THEN w
     ELSE IF MatchesDefaultRegex(l) THEN w
     ELSE Throw(w, "InvalidLabel")

\* generateRandomLabel(): draws is what generateRandomString returns, call
\* after call; the result is the label and the draws left.  A label of
\* NoLabel says the draws ran out before the loop ended.
RECURSIVE GenerateRandomLabel(_, _), GenerateLoop(_, _, _)

GenerateLoop(w, l, draws) ==
  IF ~RegistryHas(w, l) THEN [label |-> l, rest |-> draws]
  ELSE LET inner == GenerateRandomLabel(w, draws)
       IN IF inner.label = NoLabel THEN inner
          ELSE GenerateLoop(w, inner.label, inner.rest)

GenerateRandomLabel(w, draws) ==
  IF draws = <<>> THEN [label |-> NoLabel, rest |-> <<>>]
  ELSE LET r == GenerateLoop(w, Head(draws), Tail(draws))
       IN IF r.label = NoLabel THEN r
          ELSE [label |-> AutoPrefix \o r.label, rest |-> r.rest]

---------------------------------------------------------------------------
\* checkInheritance(ctor, opts)

\* The sigil constructors of the chain, starting with ctor.
RECURSIVE SigilAncestors(_, _)
SigilAncestors(w, c) ==
  IF IsSigilCtor(w, c) THEN <<c>> \o SigilAncestors(w, ParentOf(c)) ELSE <<>>

\* The loop auto-filling whatever autofillLabels says.
RECURSIVE CheckLoopAutofillAlways(_, _, _, _, _, _)
CheckLoopAutofillAlways(w, ctors, i, labelOwner, opts, draws) ==
  IF i < 1 THEN w
  ELSE
    LET ctor == ctors[i]
        lbl == GetLabel(w, ctor)
    IN IF lbl \in DOMAIN labelOwner
         THEN IF IsDecorated(w, ctor)
                THEN Throw(w, "AncestorCollision")
                ELSE LET g == IF draws = <<>>
                                THEN [label |-> AutoPrefix \o "r1", rest |-> <<>>]
                                ELSE GenerateRandomLabel(w, draws)
                         w1 == DecorateCtor(w, ctor, g.label)
                     IN IF g.label = NoLabel THEN Throw(w, "OutOfDraws")
                        ELSE IF w1.err # "none" THEN w1
                        ELSE CheckLoopAutofillAlways(w1, ctors, i - 1,
                                       (g.label :> Name(ctor)) @@ labelOwner,
                                       opts, g.rest)
         ELSE CheckLoopAutofillAlways(w, ctors, i - 1,
                        (lbl :> Name(ctor)) @@ labelOwner, opts, draws)

\* The loop over ctors from base (i = Len(ctors)) to current (i = 1);
\* labelOwner maps each claimed label to the name of its owner.
RECURSIVE CheckLoop(_, _, _, _, _, _)
CheckLoop(w, ctors, i, labelOwner, opts, draws) ==
  IF i < 1 THEN w
  ELSE
    LET ctor == ctors[i]
        lbl == GetLabel(w, ctor)
    IN IF lbl \in DOMAIN labelOwner
         THEN IF IsDecorated(w, ctor) \/ ~Opt(w, opts, "autofillLabels")
                THEN Throw(w, "AncestorCollision")
                ELSE LET g == GenerateRandomLabel(w, draws)
                         w1 == DecorateCtor(w, ctor, g.label)
                     IN IF g.label = NoLabel THEN Throw(w, "OutOfDraws")
                        ELSE IF w1.err # "none" THEN w1
                        ELSE CheckLoop(w1, ctors, i - 1,
                                       (g.label :> Name(ctor)) @@ labelOwner,
                                       opts, g.rest)
         ELSE CheckLoop(w, ctors, i - 1, (lbl :> Name(ctor)) @@ labelOwner,
                        opts, draws)

\* checkInheritance without the early returns on devMarker and on
\* skipLabelInheritanceCheck.
CheckInheritanceAlways(w, c, opts, draws) ==
  IF ~IsSigilCtor(w, c) THEN w
  ELSE IF IsInheritanceChecked(w, c) THEN w
  ELSE
    LET ctors == <<c>> \o SigilAncestors(w, ParentOf(c))
        w1 == CheckLoop(w, ctors, Len(ctors), <<>>, opts, draws)
    IN IF w1.err # "none" THEN w1
       ELSE [w1 EXCEPT !.checked[c] = TRUE]

\* checkInheritance setting the mark before it walks the chain.
CheckInheritanceMarkFirst(w, c, opts, draws) ==
  IF ~Opt(w, opts, "devMarker") THEN w
  ELSE IF ~IsSigilCtor(w, c) THEN w
  ELSE IF IsInheritanceChecked(w, c) \/ Opt(w, opts, "skipLabelInheritanceCheck")
    THEN w
  ELSE
    LET ctors == <<c>> \o SigilAncestors(w, ParentOf(c))
        w0 == [w EXCEPT !.checked[c] = TRUE]
    IN CheckLoop(w0, ctors, Len(ctors), <<>>, opts, draws)

CheckInheritance(w, c, opts, draws) ==
  IF ~Opt(w, opts, "devMarker") THEN w
  ELSE IF ~IsSigilCtor(w, c) THEN w
  ELSE IF IsInheritanceChecked(w, c) \/ Opt(w, opts, "skipLabelInheritanceCheck")
    THEN w
  ELSE
    LET ctors == <<c>> \o SigilAncestors(w, ParentOf(c))
        w1 == CheckLoop(w, ctors, Len(ctors), <<>>, opts, draws)
    IN IF w1.err # "none" THEN w1
       ELSE [w1 EXCEPT !.checked[c] = TRUE]

---------------------------------------------------------------------------
\* The entry points.

\* "generate random label if not passed and verify it": the world (with the
\* error verifyLabel raised, if any), the label and the draws left.
ResolveLabel(w, lbl, opts, draws) ==
  IF lbl # NoLabel
    THEN [w |-> VerifyLabel(w, lbl, opts), label |-> lbl, rest |-> draws]
    ELSE LET g == GenerateRandomLabel(w, draws)
         IN [w |-> IF g.label = NoLabel THEN Throw(w, "OutOfDraws") ELSE w,
             label |-> g.label, rest |-> g.rest]

\* decorateCtor and checkInheritance as one step: an error of the validator
\* takes the attachment back.
DecorateAndCheckRollback(w, c, l, opts, draws) ==
  LET w1 == DecorateCtor(w, c, l)
      w2 == CheckInheritance(w1, c, opts, draws)
  IN IF w1.err # "none" THEN w1
     ELSE IF w2.err # "none" THEN Throw(w, w2.err)
     ELSE w2

\* decorateCtor(ctor, l); checkInheritance(ctor, opts);
DecorateAndCheck(w, c, l, opts, draws) ==
  LET w1 == DecorateCtor(w, c, l)
  IN IF w1.err # "none" THEN w1
     ELSE CheckInheritance(w1, c, opts, draws)

\* withSigil without the isSigilCtor test.
WithSigilHOFNoTest(w, c, lbl, opts, draws) ==
  LET r == ResolveLabel(w, lbl, opts, draws)
  IN IF r.w.err # "none" THEN r.w
     ELSE DecorateAndCheck(r.w, c, r.label, opts, r.rest)

\* withSigil(Class, label, opts)
WithSigilHOF(w, c, lbl, opts, draws) ==
  IF ~IsSigilCtor(w, c) THEN Throw(w, "NotSigil")
  ELSE LET r == ResolveLabel(w, lbl, opts, draws)
       IN IF r.w.err # "none" THEN r.w
          ELSE DecorateAndCheck(r.w, c, r.label, opts, r.rest)

\* typed(Class, label, opts): a runtime check only.
Typed(w, c, lbl, opts) ==
  IF ~IsSigilCtor(w, c) THEN Throw(w, "NotSigil")
  ELSE IF Opt(w, opts, "devMarker") /\ lbl # NoLabel
          /\ GetLabel(w, c) # NoLabel /\ GetLabel(w, c) # lbl
    THEN Throw(w, "LabelMismatch")
  ELSE w

\* withSigilTyped without the inheritance check.
WithSigilTypedNoCheck(w, c, lbl, opts, draws) ==
  IF ~IsSigilCtor(w, c) THEN Throw(w, "NotSigil")
  ELSE LET r == ResolveLabel(w, lbl, opts, draws)
       IN IF r.w.err # "none" THEN r.w
          ELSE DecorateCtor(r.w, c, r.label)

\* withSigilTyped(Class, label, opts)
WithSigilTypedHOF(w, c, lbl, opts, draws) ==
  IF ~IsSigilCtor(w, c) THEN Throw(w, "NotSigil")
  ELSE LET r == ResolveLabel(w, lbl, opts, draws)
       IN IF r.w.err # "none" THEN r.w
          ELSE DecorateAndCheck(r.w, c, r.label, opts, r.rest)

\* @WithSigil(label, opts) class ... : the factory resolves the label, the
\* decorator it returns then tests the class.
WithSigilDecorator(w, c, lbl, opts, draws) ==
  LET r == ResolveLabel(w, lbl, opts, draws)
  IN IF r.w.err # "none" THEN r.w
     ELSE IF ~IsSigilCtor(w, c) THEN Throw(w, "NotSigil")
     ELSE DecorateAndCheck(r.w, c, r.label, opts, r.rest)

\* Sigilify(Base, label, opts), new being the class it declares
\* (class Sigilified extends Base): decorateCtor, then markSigil.
Sigilify(w, base, new, lbl, opts, draws) ==
  IF IsSigilCtor(w, base) THEN Throw(w, "AlreadySigilified")
  ELSE LET r == ResolveLabel(w, lbl, opts, draws)
           w1 == DecorateCtor(r.w, new, r.label)
       IN IF r.w.err # "none" THEN r.w
          ELSE IF w1.err # "none" THEN w1
          ELSE [w1 EXCEPT !.sigil[new] = TRUE]

\* A constructor that never runs checkInheritance.
ConstructNoCheck(w, c, draws) == w

\* The constructor of a class: a sigil class runs checkInheritance(ctor).
Construct(w, c, draws) == CheckInheritance(w, c, NoOpts, draws)

---------------------------------------------------------------------------
\* The queries.  A value is NonObject (a primitive, null) or the class of
\* which it is an instance.

NonObject == 0
GetConstructor(v) == IF v = NonObject THEN NoClass ELSE v

\* isSigilInstance(obj)
IsSigilInstance(w, v) ==
  IF v = NonObject THEN FALSE ELSE IsSigilCtor(w, GetConstructor(v))

\* isOfType reading only the own __TYPE_SET__ of the constructor of other.
IsOfTypeOwnSet(w, this, other) ==
  IF ~IsSigilInstance(w, other) THEN FALSE
  ELSE LET otherCtor == GetConstructor(other)
           otherSet == w.typeSet[otherCtor]
       IN IF otherCtor = NoClass THEN FALSE
          ELSE otherSet # {} /\ GetType(w, this) \in otherSet

\* isOfType answering true only while the label of the constructor of other
\* is a key of the registry.
IsOfTypeRegistered(w, this, other) ==
  /\ IsSigilInstance(w, other)
  /\ GetType(w, this) \in GetTypeSet(w, GetConstructor(other))
  /\ RegistryHas(w, GetLabel(w, GetConstructor(other)))

\* static isOfType(other), called on class this
IsOfType(w, this, other) ==
  IF ~IsSigilInstance(w, other) THEN FALSE
  ELSE LET otherCtor == GetConstructor(other)
           otherSet == GetTypeSet(w, otherCtor)
       IN IF otherCtor = NoClass THEN FALSE
          ELSE otherSet # {} /\ GetType(w, this) \in otherSet

\* static isOfTypeStrict(other), called on class this
IsOfTypeStrict(w, this, other) ==
  IF ~IsSigilInstance(w, other) THEN FALSE
  ELSE LET otherCtor == GetConstructor(other)
           otherLineage == GetLineage(w, otherCtor)
           thisLineage == GetLineage(w, this)
       IN IF otherCtor = NoClass THEN FALSE
          ELSE /\ otherLineage # <<>>
               /\ \A i \in 1..Len(thisLineage) :
                    i <= Len(otherLineage) /\ thisLineage[i] = otherLineage[i]

---------------------------------------------------------------------------
\* The lineage accessors.  What a caller holds is an array or a set: its
\* items, the class it was read on (NoClass: nothing read yet), and the
\* class whose stored __TYPE_LINEAGE__ / __TYPE_SET__ it is the very object
\* of (NoClass: it is an object of its own).

NoneHeld ==
  [array |-> [items |-> <<>>, from |-> NoClass, of |-> NoClass],
   set |-> [items |-> {}, from |-> NoClass, of |-> NoClass]]

\* SigilTypeLineage returning the stored array itself.
SigilTypeLineageStored(w, c) ==
  [items |-> GetLineage(w, c), from |-> c, of |-> LineageOwner(w, c)]

\* SigilTypeSet returning the stored set itself.
SigilTypeSetStored(w, c) ==
  [items |-> GetTypeSet(w, c), from |-> c, of |-> TypeSetOwner(w, c)]

\* static get SigilTypeLineage(): [...(this[__TYPE_LINEAGE__] ?? [])]
SigilTypeLineage(w, c) ==
  [items |-> GetLineage(w, c), from |-> c, of |-> NoClass]

\* static get SigilTypeSet(): a new Set filled from this[__TYPE_SET__]
SigilTypeSet(w, c) ==
  [items |-> GetTypeSet(w, c), from |-> c, of |-> NoClass]

\* getSigilTypeLineage() / getSigilTypeSet() of instance v
GetSigilTypeLineage(w, v) == SigilTypeLineage(w, GetConstructor(v))
GetSigilTypeSet(w, v) == SigilTypeSet(w, GetConstructor(v))

\* What a caller does to an array it holds: arr.push(s), arr[0] = s,
\* arr.length = 0; and to a set: set.add(s), set.delete(s), set.clear().
ArrayOps == {"push", "assign", "truncate"}
SetOps == {"add", "delete", "clear"}
ArrayAfter(items, op, s) ==
  IF op = "push" THEN Append(items, s)
  ELSE IF op = "truncate" THEN <<>>
  ELSE IF items = <<>> THEN <<s>>
  ELSE [items EXCEPT ![1] = s]
SetAfter(items, op, s) ==
  IF op = "add" THEN items \cup {s}
  ELSE IF op = "delete" THEN items \ {s}
  ELSE {}

\* The world after the caller mutates the array / the set h: the stored
\* property of a class changes only if h is that very object.
MutateArray(w, h, op, s) ==
  IF h.of = NoClass THEN w
  ELSE [w EXCEPT !.lineage[h.of] = ArrayAfter(@, op, s)]
MutateSet(w, h, op, s) ==
  IF h.of = NoClass THEN w
  ELSE [w EXCEPT !.typeSet[h.of] = SetAfter(@, op, s)]

---------------------------------------------------------------------------
\* Options.

\* const OPTIONS = {...}: the object before the module populates it.
InitialOptions ==
  [labelValidation |-> "none", skipLabelInheritanceCheck |-> FALSE,
   autofillLabels |-> FALSE, devMarker |-> FALSE, registryOn |-> FALSE,
   useGlobalRegistry |-> FALSE, storeConstructor |-> FALSE]

\* DEFAULT_OPTIONS, dev being process.env.NODE_ENV !== 'production'; its
\* registry is a new SigilRegistry over an empty map.
NoRegistry == [on |-> FALSE, map |-> <<>>]
NewRegistry(map) == [on |-> TRUE, map |-> map]
DefaultOptions(dev) ==
  ("registry" :> NewRegistry(<<>>)) @@
  [labelValidation |-> "none", skipLabelInheritanceCheck |-> FALSE,
   autofillLabels |-> FALSE, devMarker |-> dev,
   useGlobalRegistry |-> TRUE, storeConstructor |-> TRUE]

\* The history of the entries of a map the caller built: each class
\* reference was put there by the caller.
MapOrigin(map) == [l \in DOMAIN map |-> [by |-> map[l], stored |-> TRUE]]

\* SigilRegistry.merge(other), called on the registry whose map is target:
\* the world whose registry is target with other's entries registered.  An
\* entry that is copied keeps the class that registered it in its history.
RECURSIVE MergeLoop(_, _, _)
MergeLoop(w, other, otherOrigin) ==
  IF DOMAIN other = {} \/ w.err # "none" THEN w
  ELSE LET l == CHOOSE x \in DOMAIN other : TRUE
           rest == [x \in DOMAIN other \ {l} |-> other[x]]
           w1 == Register(w, l, other[l], NoOpts)
           w2 == IF w1.err = "none" /\ ~RegistryHas(w, l)
                   THEN [w1 EXCEPT !.origin[l] =
                           [by |-> otherOrigin[l].by,
                            stored |-> otherOrigin[l].stored /\ @.stored]]
                   ELSE w1
       IN MergeLoop(w2, rest, otherOrigin)

\* merge registering nothing.
MergeNothing(w, target, other) ==
  [w EXCEPT !.registry = target, !.origin = MapOrigin(target)]

Merge(w, target, other) ==
  IF ~w.options.registryOn
    THEN [w EXCEPT !.registry = target, !.origin = MapOrigin(target)]
    ELSE MergeLoop([w EXCEPT !.registry = target, !.origin = MapOrigin(target)],
                   other, w.origin)

\* updateOptions assigning the fields before it merges the registries.
UpdateOptionsAssignFirst(w, opts, mergeRegistries) ==
  LET given == "registry" \in DOMAIN opts
      merging == mergeRegistries /\ given /\ opts["registry"].on
                 /\ w.options.registryOn
      merged == IF merging THEN Merge(w, opts["registry"].map, w.registry)
                ELSE w
      newMap == IF ~given THEN w.registry
                ELSE IF merging THEN merged.registry
                ELSE opts["registry"].map
      newOrigin == IF ~given THEN w.origin
                   ELSE IF merging THEN merged.origin
                   ELSE MapOrigin(opts["registry"].map)
      newOptions ==
        [f \in DOMAIN w.options |->
           IF f = "registryOn"
             THEN (IF given THEN opts["registry"].on ELSE w.options[f])
             ELSE IF f \in DOMAIN opts THEN opts[f] ELSE w.options[f]]
      newGlobal == IF newOptions.useGlobalRegistry /\ newOptions.registryOn
                     THEN "first" ELSE "none"
  IN IF merged.err # "none"
       THEN [w EXCEPT !.options = newOptions, !.err = merged.err]
       ELSE [w EXCEPT !.options = newOptions, !.registry = newMap,
                      !.origin = newOrigin, !.global = newGlobal]

\* updateOptions replacing the whole options object: a field not given goes
\* back to its initial value.
UpdateOptionsReset(w, opts, mergeRegistries) ==
  LET given == "registry" \in DOMAIN opts
      merging == mergeRegistries /\ given /\ opts["registry"].on
                 /\ w.options.registryOn
      merged == IF merging THEN Merge(w, opts["registry"].map, w.registry)
                ELSE w
      newMap == IF ~given THEN w.registry
                ELSE IF merging THEN merged.registry
                ELSE opts["registry"].map
      newOrigin == IF ~given THEN w.origin
                   ELSE IF merging THEN merged.origin
                   ELSE MapOrigin(opts["registry"].map)
      newOptions ==
        [f \in DOMAIN w.options |->
           IF f = "registryOn"
             THEN (IF given THEN opts["registry"].on ELSE w.options[f])
             ELSE IF f \in DOMAIN opts THEN opts[f] ELSE InitialOptions[f]]
      newGlobal == IF newOptions.useGlobalRegistry /\ newOptions.registryOn
                     THEN "first" ELSE "none"
  IN IF merged.err # "none" THEN Throw(w, merged.err)
     ELSE [w EXCEPT !.options = newOptions, !.registry = newMap,
                    !.origin = newOrigin, !.global = newGlobal]

\* updateOptions leaving the old map readable when the registry is set to null.
UpdateOptionsKeepMap(w, opts, mergeRegistries) ==
  LET given == "registry" \in DOMAIN opts
      merging == mergeRegistries /\ given /\ opts["registry"].on
                 /\ w.options.registryOn
      merged == IF merging THEN Merge(w, opts["registry"].map, w.registry)
                ELSE w
      newMap == IF ~given \/ ~opts["registry"].on THEN w.registry
                ELSE IF merging THEN merged.registry
                ELSE opts["registry"].map
      newOrigin == IF ~given \/ ~opts["registry"].on THEN w.origin
                   ELSE IF merging THEN merged.origin
                   ELSE MapOrigin(opts["registry"].map)
      newOptions ==
        [f \in DOMAIN w.options |->
           IF f = "registryOn"
             THEN (IF given THEN opts["registry"].on ELSE w.options[f])
             ELSE IF f \in DOMAIN opts THEN opts[f] ELSE w.options[f]]
      newGlobal == IF newOptions.useGlobalRegistry /\ newOptions.registryOn
                     THEN "first" ELSE "none"
  IN IF merged.err # "none" THEN Throw(w, merged.err)
     ELSE [w EXCEPT !.options = newOptions, !.registry = newMap,
                    !.origin = newOrigin, !.global = newGlobal]

\* updateOptions(opts, mergeRegistries): applyBeforeSideEffects merges the old
\* registry into the new one, then every given field is assigned.
\* updateOptions that never merges the old registry into the new one.
UpdateOptionsNoMerge(w, opts, mergeRegistries) ==
  LET given == "registry" \in DOMAIN opts
      newOptions ==
        [f \in DOMAIN w.options |->
           IF f = "registryOn"
             THEN (IF given THEN opts["registry"].on ELSE w.options[f])
             ELSE IF f \in DOMAIN opts THEN opts[f] ELSE w.options[f]]
      newGlobal == IF newOptions.useGlobalRegistry /\ newOptions.registryOn
                     THEN "first" ELSE "none"
  IN [w EXCEPT !.options = newOptions,
               !.registry = IF given THEN opts["registry"].map ELSE @,
               !.origin = IF given THEN MapOrigin(opts["registry"].map) ELSE @,
               !.global = newGlobal]

UpdateOptions(w, opts, mergeRegistries) ==
  LET given == "registry" \in DOMAIN opts
      merging == mergeRegistries /\ given /\ opts["registry"].on
                 /\ w.options.registryOn
      merged == IF merging THEN Merge(w, opts["registry"].map, w.registry)
                ELSE w
      newMap == IF ~given THEN w.registry
                ELSE IF merging THEN merged.registry
                ELSE opts["registry"].map
      newOrigin == IF ~given THEN w.origin
                   ELSE IF merging THEN merged.origin
                   ELSE MapOrigin(opts["registry"].map)
      newOptions ==
        [f \in DOMAIN w.options |->
           IF f = "registryOn"
             THEN (IF given THEN opts["registry"].on ELSE w.options[f])
             ELSE IF f \in DOMAIN opts THEN opts[f] ELSE w.options[f]]
      newGlobal == IF newOptions.useGlobalRegistry /\ newOptions.registryOn
                     THEN "first" ELSE "none"
  IN IF merged.err # "none" THEN Throw(w, merged.err)
     ELSE [w EXCEPT !.options = newOptions, !.registry = newMap,
                    !.origin = newOrigin, !.global = newGlobal]

\* SigilRegistry.replaceRegistry(newRegistry): reg is NoRegistry for null.
ReplaceRegistry(w, reg) == UpdateOptions(w, "registry" :> reg, TRUE)

\* SigilRegistry.listLabels() and size of the live REGISTRY binding.
ListLabels(w) == DOMAIN w.registry
RegistrySize(w) == Cardinality(DOMAIN w.registry)

\* unregister deleting every entry.
UnregisterAll(w, l) ==
  [w |-> [w EXCEPT !.registry = <<>>, !.origin = <<>>],
   result |-> l \in DOMAIN w.registry]

\* SigilRegistry.unregister(label): Map.delete, with the boolean it returns.
Unregister(w, l) ==
  [w |-> [w EXCEPT !.registry = [k \in DOMAIN @ \ {l} |-> @[k]],
                   !.origin = [k \in DOMAIN @ \ {l} |-> @[k]]],
   result |-> l \in DOMAIN w.registry]

\* SigilRegistry.clear(): Map.clear
Clear(w) == [w EXCEPT !.registry = <<>>, !.origin = <<>>]

\* The second copy before its module is evaluated.
NotLoaded == [loaded |-> FALSE, dev |-> FALSE, registry |-> <<>>]

---------------------------------------------------------------------------
\* The state after the library is loaded: options.ts populates OPTIONS with
\* DEFAULT_OPTIONS, classes.ts declares Sigil and SigilError.

RegistryKey == "@Sigil.__SIGIL_REGISTRY__"

Blank ==
  [label |-> [c \in Classes |-> NoLabel], type |-> [c \in Classes |-> NoSymbol],
   lineage |-> [c \in Classes |-> <<>>], typeSet |-> [c \in Classes |-> {}],
   decorated |-> [c \in Classes |-> FALSE], sigil |-> [c \in Classes |-> FALSE],
   checked |-> [c \in Classes |-> FALSE],
   symtab |-> (RegistryKey :> 1), registry |-> <<>>,
   options |-> InitialOptions, origin |-> <<>>, global |-> "none",
   err |-> "none"]

Loaded(dev) ==
  LET w1 == UpdateOptions(Blank, DefaultOptions(dev), TRUE)
      w2 == Sigilify(w1, NoClass, Sigil, "Sigil", NoOpts, <<>>)
  IN Sigilify(w2, NoClass, SigilError, "SigilError", NoOpts, <<>>)

\* The next state is world w (a call whose random draws ran out before
\* generateRandomLabel returned is not a call of the model).
Becomes(w) ==
  /\ w.err # "OutOfDraws"
  /\ label' = w.label
  /\ type' = w.type
  /\ lineage' = w.lineage
  /\ typeSet' = w.typeSet
  /\ decorated' = w.decorated
  /\ sigil' = w.sigil
  /\ checked' = w.checked
  /\ symtab' = w.symtab
  /\ registry' = w.registry
  /\ options' = w.options
  /\ origin' = w.origin
  /\ globalRegistry' = w.global
  /\ err' = w.err

Init ==
  \E dev \in BOOLEAN :
    LET w == Loaded(dev)
    IN /\ label = w.label
       /\ type = w.type
       /\ lineage = w.lineage
       /\ typeSet = w.typeSet
       /\ decorated = w.decorated
       /\ sigil = w.sigil
       /\ checked = w.checked
       /\ symtab = w.symtab
       /\ registry = w.registry
       /\ options = w.options
       /\ instances = {}
       /\ copyType = <<>>
       /\ copy = NotLoaded
       /\ held = NoneHeld
       /\ globalRegistry = w.global
       /\ origin = w.origin
       /\ err = "none"

---------------------------------------------------------------------------
\* The calls a program makes.

\* The classes that exist: Root is declared by a Sigilify call.
Exists(c) == c # Root \/ sigil[Root]

\* What generateRandomString returns during one call: as many draws as the
\* call can use, one for a label left out and one for each undecorated sigil
\* class the validator may auto-fill.
RECURSIVE SeqsOf(_, _)
SeqsOf(S, n) ==
  IF n = 0 THEN {<<>>}
  ELSE {<<x>> \o s : x \in S, s \in SeqsOf(S, n - 1)}

RECURSIVE Undecorated(_)
Undecorated(c) ==
  IF c = NoClass THEN 0
  ELSE (IF decorated[c] \/ ~IsSigilCtor(World, c) THEN 0 ELSE 1)
       + Undecorated(ParentOf(c))

AutofillDraws(c, opts) ==
  IF Opt(World, opts, "devMarker") /\ Opt(World, opts, "autofillLabels")
    THEN Undecorated(c) ELSE 0

EntryDraws(rs, c, lbl, opts) ==
  SeqsOf(rs,
         (IF lbl = NoLabel THEN 1 ELSE 0) + AutofillDraws(ParentOf(c), opts))

\* withSigil(c, lbl, opts)
CallWithSigil(cs, ls, os, rs) ==
  \E c \in cs, lbl \in ls, opts \in os :
    \E draws \in EntryDraws(rs, c, lbl, opts) :
      /\ Exists(c)
      /\ Becomes(WithSigilHOF(World, c, lbl, opts, draws))
      /\ UNCHANGED <<instances, copyType, copy, held>>

\* withSigilTyped(c, lbl, opts)
CallWithSigilTyped(cs, ls, os, rs) ==
  \E c \in cs, lbl \in ls, opts \in os :
    \E draws \in EntryDraws(rs, c, lbl, opts) :
      /\ Exists(c)
      /\ Becomes(WithSigilTypedHOF(World, c, lbl, opts, draws))
      /\ UNCHANGED <<instances, copyType, copy, held>>

\* typed(c, lbl, opts)
CallTyped(cs, ls, os) ==
  \E c \in cs, lbl \in ls, opts \in os :
    /\ Exists(c)
    /\ Becomes(Typed(World, c, lbl, opts))
    /\ UNCHANGED <<instances, copyType, copy, held>>

\* @WithSigil(lbl, opts) on class c
CallWithSigilDecorator(cs, ls, os, rs) ==
  \E c \in cs, lbl \in ls, opts \in os :
    \E draws \in EntryDraws(rs, c, lbl, opts) :
      /\ Exists(c)
      /\ Becomes(WithSigilDecorator(World, c, lbl, opts, draws))
      /\ UNCHANGED <<instances, copyType, copy, held>>

\* Sigilify(base, lbl, opts): a plain base gives the new class Root.
CallSigilify(bases, ls, os, rs) ==
  \E base \in bases, lbl \in ls, opts \in os :
    \E draws \in SeqsOf(rs, IF lbl = NoLabel THEN 1 ELSE 0) :
      /\ Exists(base)
      /\ IsSigilCtor(World, base) \/ (base = ParentOf(Root) /\ ~Exists(Root))
      /\ Becomes(Sigilify(World, base, Root, lbl, opts, draws))
      /\ UNCHANGED <<instances, copyType, copy, held>>

\* new c(): the instance exists when the constructor returns.
CallNew(cs, rs) ==
  \E c \in cs :
    \E draws \in SeqsOf(rs, AutofillDraws(c, NoOpts)) :
      /\ Exists(c)
      /\ LET w == Construct(World, c, draws)
         IN /\ Becomes(w)
            /\ instances' = IF w.err = "none" THEN instances \cup {c}
                            ELSE instances
            /\ UNCHANGED <<copyType, copy, held>>

\* updateOptions(opts)
CallUpdateOptions(updates) ==
  \E opts \in updates :
    /\ Becomes(UpdateOptions(World, opts, TRUE))
    /\ UNCHANGED <<instances, copyType, copy, held>>

\* REGISTRY.replaceRegistry(null), REGISTRY.replaceRegistry(new Map(...))
CallReplaceRegistry(regs) ==
  \E reg \in regs :
    /\ Becomes(ReplaceRegistry(World, reg))
    /\ UNCHANGED <<instances, copyType, copy, held>>

\* updateOptions({ registry }, false): no merge of the old registry
CallSwitchRegistry(regs) ==
  \E reg \in regs :
    /\ Becomes(UpdateOptions(World, "registry" :> reg, FALSE))
    /\ UNCHANGED <<instances, copyType, copy, held>>

\* REGISTRY.unregister(lbl)
CallUnregister(ls) ==
  \E lbl \in ls :
    /\ Becomes(Unregister(World, lbl).w)
    /\ UNCHANGED <<instances, copyType, copy, held>>

\* REGISTRY.clear()
CallClear ==
  /\ Becomes(Clear(World))
  /\ UNCHANGED <<instances, copyType, copy, held>>

\* A symbol of the caller's own, `Symbol('x')`: no label has it.
ForeignSymbol == 0 - 1
\* The longest array the calls of the model let a caller build.
MaxHeld == ChainDepth + 1

\* const a = c.SigilTypeLineage / const a = new c().getSigilTypeLineage()
CallSigilTypeLineage(cs) ==
  \E c \in cs :
    /\ Exists(c) /\ IsSigilCtor(World, c)
    /\ held' = [NoneHeld EXCEPT !.array = SigilTypeLineage(World, c)]
    /\ err' = "none"
    /\ UNCHANGED <<label, type, lineage, typeSet, decorated, sigil, checked,
                   symtab, registry, options, instances, copyType, copy,
                   globalRegistry, origin>>
CallGetSigilTypeLineage(vs) ==
  \E v \in vs \cap instances :
    /\ held' = [NoneHeld EXCEPT !.array = GetSigilTypeLineage(World, v)]
    /\ err' = "none"
    /\ UNCHANGED <<label, type, lineage, typeSet, decorated, sigil, checked,
                   symtab, registry, options, instances, copyType, copy,
                   globalRegistry, origin>>

\* const t = c.SigilTypeSet / const t = new c().getSigilTypeSet()
CallSigilTypeSet(cs) ==
  \E c \in cs :
    /\ Exists(c) /\ IsSigilCtor(World, c)
    /\ held' = [NoneHeld EXCEPT !.set = SigilTypeSet(World, c)]
    /\ err' = "none"
    /\ UNCHANGED <<label, type, lineage, typeSet, decorated, sigil, checked,
                   symtab, registry, options, instances, copyType, copy,
                   globalRegistry, origin>>
CallGetSigilTypeSet(vs) ==
  \E v \in vs \cap instances :
    /\ held' = [NoneHeld EXCEPT !.set = GetSigilTypeSet(World, v)]
    /\ err' = "none"
    /\ UNCHANGED <<label, type, lineage, typeSet, decorated, sigil, checked,
                   symtab, registry, options, instances, copyType, copy,
                   globalRegistry, origin>>

\* The caller mutates the array / the set an accessor returned.
CallMutateArray(ops, syms) ==
  \E op \in ops, s \in syms :
    /\ held.array.from # NoClass
    /\ op = "push" => Len(held.array.items) < MaxHeld
    /\ Becomes(MutateArray(World, held.array, op, s))
    /\ held' = [held EXCEPT !.array.items = ArrayAfter(@, op, s)]
    /\ UNCHANGED <<instances, copyType, copy>>
CallMutateSet(ops, syms) ==
  \E op \in ops, s \in syms :
    /\ held.set.from # NoClass
    /\ Becomes(MutateSet(World, held.set, op, s))
    /\ held' = [held EXCEPT !.set.items = SetAfter(@, op, s)]
    /\ UNCHANGED <<instances, copyType, copy>>

\* The second copy of the library.  Its module state is its own: OPTIONS,
\* REGISTRY, Sigil and SigilError; the symbol registry behind Symbol.for and
\* globalThis are the process's.
SecondCopyName == "Z"    \* the declared name of the classes it identifies

\* Its decorateCtor(ctor, lbl) on a class of its own named name: Symbol.for,
\* then register on its own REGISTRY.
SecondCopyDecorate(cp, st, lbl, name) ==
  LET w == SymbolFor([symtab |-> st, err |-> "none"], lbl)
      taken == lbl \in DOMAIN cp.registry
      lenient == taken /\ cp.dev /\ cp.registry[lbl] = name
  IN [symtab |-> w.symtab,
      err |-> IF taken /\ ~lenient THEN "DuplicateLabel" ELSE "none",
      copy |-> IF taken THEN cp
               ELSE [cp EXCEPT !.registry = (lbl :> name) @@ @]]

\* The module of the second copy is evaluated: updateOptions(DEFAULT_OPTIONS)
\* makes a new SigilRegistry its registry and, useGlobalRegistry being true,
\* stores it on globalThis; classes.ts then declares its Sigil and SigilError.
CallLoadSecondCopy ==
  /\ ~copy.loaded
  /\ \E dev \in BOOLEAN :
       LET cp0 == [loaded |-> TRUE, dev |-> dev, registry |-> <<>>]
           r1 == SecondCopyDecorate(cp0, symtab, "Sigil", Name(Sigil))
           r2 == SecondCopyDecorate(r1.copy, r1.symtab, "SigilError",
                                    Name(SigilError))
       IN /\ copy' = r2.copy
          /\ symtab' = r2.symtab
          /\ copyType' = ("Sigil" :> r2.symtab["Sigil"])
                           @@ ("SigilError" :> r2.symtab["SigilError"])
                           @@ copyType
          /\ globalRegistry' = "second"
          /\ err' = "none"
  /\ UNCHANGED <<label, type, lineage, typeSet, decorated, sigil, checked,
                 registry, options, instances, origin, held>>

\* The second copy identifies one of its own classes with label lbl: its
\* decorateCtor calls Symbol.for(lbl) on the process-wide symbol registry,
\* registers lbl on its own REGISTRY and defines the symbol as __TYPE__ of
\* that class.
CallSecondCopy(ls) ==
  \E lbl \in ls :
    LET r == SecondCopyDecorate(copy, symtab, lbl, SecondCopyName)
    IN /\ copy.loaded
       /\ copy' = r.copy
       /\ symtab' = r.symtab
       /\ err' = r.err
       /\ copyType' = IF r.err = "none" THEN (lbl :> r.symtab[lbl]) @@ copyType
                      ELSE copyType
       /\ UNCHANGED <<label, type, lineage, typeSet, decorated, sigil, checked,
                      registry, options, instances, origin, globalRegistry,
                      held>>

Flag(field) == {field :> b : b \in BOOLEAN}

---------------------------------------------------------------------------
\* Spec: a program that identifies and constructs the classes of the chain,
\* switches dev mode and auto-fill, and may disable the registry.

ChainEntryClasses == {Plain, Sigil} \cup ShallowSubClasses
ChainLabels == UserLabels \cup {NoLabel}

ChainWithSigil ==
  CallWithSigil(ChainEntryClasses, ChainLabels, {NoOpts}, RandomStrings)
ChainNew == CallNew(ShallowSubClasses, RandomStrings)
ChainUpdateOptions ==
  CallUpdateOptions(Flag("devMarker") \cup Flag("autofillLabels"))
ChainDisableRegistry == CallReplaceRegistry({NoRegistry})

Next ==
  \/ ChainWithSigil
  \/ ChainNew
  \/ ChainUpdateOptions
  \/ ChainDisableRegistry

Spec == Init /\ [][Next]_vars

---------------------------------------------------------------------------
\* SpecDeep: the same program over a chain one class deeper.

DeepWithSigil ==
  CallWithSigil(SubClasses, ChainLabels, {NoOpts}, RandomStrings)
DeepNew == CallNew(SubClasses, RandomStrings)

NextDeep ==
  \/ DeepWithSigil
  \/ DeepNew
  \/ ChainUpdateOptions
  \/ ChainDisableRegistry

SpecDeep == Init /\ [][NextDeep]_vars

---------------------------------------------------------------------------
\* SpecEntry: a program that declares a class with Sigilify, identifies it
\* and a subclass of Sigil through each entry point, with and without a label
\* validation rule, switches dev mode and storeConstructor, and may disable
\* the registry, next to a second copy of the library.

EntryClasses == {Plain, Sigil, Root, FirstSub}
EntryLabels == {"@t.L1", "Sigil", NoLabel}
EntryOpts == {NoOpts, "labelValidation" :> "default"}

EntrySigilify == CallSigilify({Plain, Sigil}, EntryLabels, EntryOpts, RandomStrings)
EntryWithSigil ==
  CallWithSigil(EntryClasses, EntryLabels, EntryOpts, RandomStrings)
EntryWithSigilTyped ==
  CallWithSigilTyped(EntryClasses, EntryLabels, EntryOpts, RandomStrings)
EntryWithSigilDecorator ==
  CallWithSigilDecorator(EntryClasses, EntryLabels, EntryOpts, RandomStrings)
EntryUpdateOptions ==
  CallUpdateOptions(Flag("devMarker") \cup Flag("storeConstructor"))
EntrySecondCopy == CallSecondCopy({"@t.L1", "Sigil"})

NextEntry ==
  \/ EntrySigilify
  \/ EntryWithSigil
  \/ EntryWithSigilTyped
  \/ EntryWithSigilDecorator
  \/ EntryUpdateOptions
  \/ ChainDisableRegistry
  \/ CallLoadSecondCopy
  \/ EntrySecondCopy

SpecEntry == Init /\ [][NextEntry]_vars

---------------------------------------------------------------------------
\* SpecRegistry: a program that identifies class A, its hot-reloaded twin
\* and class B with and without options of their own, switches dev mode and
\* storeConstructor, and replaces, disables, prunes and clears the registry.

RegistryClasses == {FirstSub, Reloaded, FirstSub + 1}
RegistryOpts ==
  {NoOpts, "autofillLabels" :> TRUE} \cup Flag("storeConstructor")
RegistryMaps ==
  {NoRegistry, NewRegistry(<<>>), NewRegistry("@t.L1" :> Reloaded)}

RegistryWithSigil ==
  CallWithSigil(RegistryClasses, {"@t.L1"}, RegistryOpts, RandomStrings)
RegistryUpdateOptions ==
  CallUpdateOptions(Flag("devMarker") \cup Flag("storeConstructor"))
RegistryReplace == CallReplaceRegistry(RegistryMaps)
RegistrySwitch == CallSwitchRegistry({NewRegistry(<<>>)})
RegistryUnregister == CallUnregister({"@t.L1", "Sigil"})

NextRegistry ==
  \/ RegistryWithSigil
  \/ RegistryUpdateOptions
  \/ RegistryReplace
  \/ RegistrySwitch
  \/ RegistryUnregister
  \/ CallClear

SpecRegistry == Init /\ [][NextRegistry]_vars

\* SpecDefault: a program that leaves the options at their defaults and the
\* registry entries in place; it declares a class with Sigilify, identifies
\* the classes and constructs them.

DefaultClasses == {Root, FirstSub, Reloaded, FirstSub + 1}
DefaultSigilify ==
  CallSigilify({Plain}, UserLabels \cup {"Sigil", NoLabel}, {NoOpts}, RandomStrings)
DefaultWithSigil ==
  CallWithSigil(DefaultClasses, ChainLabels, {NoOpts}, RandomStrings)
DefaultWithSigilDecorator ==
  CallWithSigilDecorator(DefaultClasses, ChainLabels, {NoOpts}, RandomStrings)
DefaultNew == CallNew(DefaultClasses, RandomStrings)

NextDefault ==
  \/ DefaultSigilify
  \/ DefaultWithSigil
  \/ DefaultWithSigilDecorator
  \/ DefaultNew

SpecDefault == Init /\ [][NextDefault]_vars

---------------------------------------------------------------------------
\* SpecLabels: a program that sets the label validation rule and dev mode
\* and calls every entry point, typed and Sigilify included, on plain and
\* sigil classes, with labels the rule accepts, labels it rejects and none.

LabelsSigilify ==
  CallSigilify({Plain, Sigil}, EntryLabels, EntryOpts, RandomStrings)
LabelsWithSigil ==
  CallWithSigil(EntryClasses, EntryLabels, EntryOpts, RandomStrings)
LabelsWithSigilTyped ==
  CallWithSigilTyped(EntryClasses, EntryLabels, EntryOpts, RandomStrings)
LabelsWithSigilDecorator ==
  CallWithSigilDecorator(EntryClasses, EntryLabels, EntryOpts, RandomStrings)
LabelsTyped == CallTyped(EntryClasses, EntryLabels, EntryOpts)
LabelsUpdateOptions ==
  CallUpdateOptions(Flag("devMarker")
                      \cup {"labelValidation" :> v : v \in {"none", "default"}})

NextLabels ==
  \/ LabelsSigilify
  \/ LabelsWithSigil
  \/ LabelsWithSigilTyped
  \/ LabelsWithSigilDecorator
  \/ LabelsTyped
  \/ LabelsUpdateOptions

SpecLabels == Init /\ [][NextLabels]_vars

---------------------------------------------------------------------------
\* SpecCopies: a program that identifies the classes of the chain through
\* the first copy of the library, loads a second copy, identifies a class of
\* another name through it, and switches dev mode and the global slot.

CopiesWithSigil == CallWithSigil(SubClasses, UserLabels, {NoOpts}, RandomStrings)
CopiesSecondCopy == CallSecondCopy(UserLabels)
CopiesUpdateOptions ==
  CallUpdateOptions(Flag("useGlobalRegistry") \cup Flag("devMarker"))

NextCopies ==
  \/ CopiesWithSigil
  \/ CallLoadSecondCopy
  \/ CopiesSecondCopy
  \/ CopiesUpdateOptions

SpecCopies == Init /\ [][NextCopies]_vars

---------------------------------------------------------------------------
\* SpecAccess: a program that identifies and constructs the classes of the
\* chain, reads their lineage and lineage set through the static and the
\* instance accessors, and mutates what the accessors returned.

AccessSymbols == {ForeignSymbol}
AccessWithSigil ==
  CallWithSigil(ShallowSubClasses, {"@t.L1"}, {NoOpts}, RandomStrings)
AccessNew == CallNew(ShallowSubClasses, RandomStrings)
AccessSigilTypeLineage == CallSigilTypeLineage(ShallowSubClasses)
AccessGetSigilTypeLineage == CallGetSigilTypeLineage(ShallowSubClasses)
AccessSigilTypeSet == CallSigilTypeSet(ShallowSubClasses)
AccessGetSigilTypeSet == CallGetSigilTypeSet(ShallowSubClasses)
AccessMutateArray == CallMutateArray(ArrayOps, AccessSymbols)
AccessMutateSet == CallMutateSet(SetOps, AccessSymbols)

NextAccess ==
  \/ AccessWithSigil
  \/ AccessNew
  \/ AccessSigilTypeLineage
  \/ AccessGetSigilTypeLineage
  \/ AccessSigilTypeSet
  \/ AccessGetSigilTypeSet
  \/ AccessMutateArray
  \/ AccessMutateSet

SpecAccess == Init /\ [][NextAccess]_vars

---------------------------------------------------------------------------
\* SpecQuery: a program that identifies and constructs the classes of the
\* chain and, in between, switches dev mode and auto-fill and prunes, clears, replaces and
\* disables the registry.

QueryWithSigil ==
  CallWithSigil(ShallowSubClasses, {"@t.L1"}, {NoOpts}, RandomStrings)
QueryNew == CallNew(ShallowSubClasses, RandomStrings)
QueryUpdateOptions ==
  CallUpdateOptions(Flag("devMarker") \cup Flag("autofillLabels"))
QueryReplace == CallReplaceRegistry({NoRegistry, NewRegistry(<<>>)})
QueryUnregister == CallUnregister({"@t.L1", "Sigil"})

NextQuery ==
  \/ QueryWithSigil
  \/ QueryNew
  \/ QueryUpdateOptions
  \/ QueryReplace
  \/ QueryUnregister
  \/ CallClear

SpecQuery == Init /\ [][NextQuery]_vars

---------------------------------------------------------------------------
\* SpecKeep: a program that keeps a registry active and never prunes it: it
\* identifies and constructs classes, switches dev mode and auto-fill, and
\* replaces the registry by a new one into which the old one is merged.

KeepMaps == {NewRegistry(<<>>), NewRegistry("@t.L1" :> Reloaded)}
KeepWithSigil ==
  CallWithSigil(RegistryClasses, UserLabels \cup {NoLabel}, {NoOpts},
                RandomStrings)
KeepNew == CallNew(RegistryClasses, RandomStrings)
KeepUpdateOptions ==
  CallUpdateOptions(Flag("devMarker") \cup Flag("autofillLabels"))
KeepReplace == CallReplaceRegistry(KeepMaps)

NextKeep ==
  \/ KeepWithSigil
  \/ KeepNew
  \/ KeepUpdateOptions
  \/ KeepReplace

SpecKeep == Init /\ [][NextKeep]_vars

---------------------------------------------------------------------------
\* SpecValidate: a program that identifies the classes of the chain (the
\* deepest one stays unidentified and unconstructed), some of them never, with a label an ancestor may carry, constructs them, and
\* switches dev mode, auto-fill, the skip option and the registry between
\* the calls.

ValidateLabels == {"@t.L1", "Sigil"}
ValidateOpts ==
  {NoOpts, "skipLabelInheritanceCheck" :> TRUE, "autofillLabels" :> TRUE}
ValidateWithSigil ==
  CallWithSigil(ShallowSubClasses, ValidateLabels, ValidateOpts, RandomStrings)
ValidateNew == CallNew(ShallowSubClasses, RandomStrings)
ValidateUpdateOptions ==
  CallUpdateOptions(Flag("devMarker") \cup Flag("autofillLabels")
                      \cup Flag("skipLabelInheritanceCheck"))
ValidateDisableRegistry == CallReplaceRegistry({NoRegistry})

NextValidate ==
  \/ ValidateWithSigil
  \/ ValidateNew
  \/ ValidateUpdateOptions
  \/ ValidateDisableRegistry

SpecValidate == Init /\ [][NextValidate]_vars

---------------------------------------------------------------------------
\* The vocabulary of the properties, read off the class hierarchy and the
\* own metadata of the classes.

RECURSIVE AncestorsOf(_)
AncestorsOf(c) ==
  IF ParentOf(c) = NoClass THEN {}
  ELSE {ParentOf(c)} \cup AncestorsOf(ParentOf(c))

\* b is a or a subclass of a
Descends(b, a) == b = a \/ a \in AncestorsOf(b)

\* an identified class carries identity metadata of its own
Identified(c) == Exists(c) /\ decorated[c]
IdentifiedClasses == {c \in Classes : Identified(c)}
DistinctLabels ==
  \A c, d \in IdentifiedClasses : c # d => label[c] # label[d]

\* the nearest identified class at or above c
RECURSIVE Nearest(_)
Nearest(c) ==
  IF c = NoClass THEN NoClass
  ELSE IF decorated[c] THEN c
  ELSE Nearest(ParentOf(c))

\* the classes that have the static predicates
SigilClasses == {c \in Classes : Exists(c) /\ Nearest(c) # NoClass}

\* the values a predicate is asked about: a non-object, an instance of the
\* plain class, and the instances constructed so far
Values == {NonObject, Plain} \cup instances
InstanceOfIdentified(v) == v # NonObject /\ Nearest(v) # NoClass

IsPrefix(s, t) == Len(s) <= Len(t) /\ \A i \in 1..Len(s) : s[i] = t[i]

---------------------------------------------------------------------------
\* C1: among identified classes with pairwise distinct labels, in whatever
\* order they were identified, A.isOfType(b) is true for an instance b of
\* class B exactly when B is A or a subclass of A.
C1_IsOfTypeIffDescends ==
  DistinctLabels =>
    \A a \in IdentifiedClasses, b \in IdentifiedClasses \cap instances :
      IsOfType(World, a, b) <=> Descends(b, a)

\* C2: the lineage of an identified class is the lineage of its nearest
\* identified ancestor followed by its own symbol, and its own symbol alone
\* when it has no identified ancestor.
C2_LineageExtendsAncestor ==
  \A c \in IdentifiedClasses :
    LET p == Nearest(ParentOf(c))
    IN lineage[c] = (IF p = NoClass THEN <<>> ELSE lineage[p]) \o <<type[c]>>

\* C3: X.isOfType(other) is true exactly when other is an instance of an
\* identified class whose lineage contains the symbol of X; it is false for
\* a non-object and for an instance of a class that is not identified.
C3_IsOfTypeIsLineageMembership ==
  \A x \in SigilClasses, v \in Values :
    IsOfType(World, x, v) <=>
      /\ InstanceOfIdentified(v)
      /\ type[Nearest(x)] \in Range(lineage[Nearest(v)])

C3_Witness ==
  /\ \E a, b \in IdentifiedClasses \cap SubClasses :
       a \in AncestorsOf(b) /\ b \in instances /\ IsOfType(World, a, b)
  /\ \E y \in IdentifiedClasses \cap SubClasses, v \in instances :
       ~IsOfType(World, y, v)
  /\ ~IsOfType(World, Sigil, Plain) /\ ~IsOfType(World, Sigil, NonObject)

\* C4: for identified classes A and B with distinct labels, B a strict
\* subclass of A: B.isOfType(a) is false for an instance a of A, and
\* A.isOfType(b) is true for an instance b of B.
C4_IsOfTypeAsymmetric ==
  DistinctLabels =>
    \A a, b \in IdentifiedClasses :
      a \in AncestorsOf(b) =>
        /\ a \in instances => ~IsOfType(World, b, a)
        /\ b \in instances => IsOfType(World, a, b)

\* C5: isOfType is reflexive on an identified class and its own instance,
\* and transitive along every chain A <- B <- C of identified classes.
C5_IsOfTypeReflexiveTransitive ==
  /\ \A x \in IdentifiedClasses \cap instances : IsOfType(World, x, x)
  /\ \A a, b, c \in IdentifiedClasses :
       (a \in AncestorsOf(b) /\ b \in AncestorsOf(c) /\ {b, c} \subseteq instances) =>
         (IsOfType(World, b, c) /\ IsOfType(World, a, b) => IsOfType(World, a, c))

\* C6: X.isOfTypeStrict(other) is true exactly when other is an instance of
\* an identified class and the lineage of X is a positional prefix of the
\* lineage of other; so for identified classes A and B, B a strict subclass
\* of A, A.isOfTypeStrict(b) is true and B.isOfTypeStrict(a) is false.
C6_IsOfTypeStrictIsPrefix ==
  /\ \A x \in SigilClasses, v \in Values :
       IsOfTypeStrict(World, x, v) <=>
         /\ InstanceOfIdentified(v)
         /\ IsPrefix(lineage[Nearest(x)], lineage[Nearest(v)])
  /\ DistinctLabels =>
       \A a, b \in IdentifiedClasses :
         a \in AncestorsOf(b) =>
           /\ b \in instances => IsOfTypeStrict(World, a, b)
           /\ a \in instances => ~IsOfTypeStrict(World, b, a)

\* C7: whenever X.isOfTypeStrict(other) is true, X.isOfType(other) is true.
C7_StrictImpliesIsOfType ==
  \A x \in SigilClasses, v \in Values :
    IsOfTypeStrict(World, x, v) => IsOfType(World, x, v)

C7_Witness ==
  /\ \E x \in IdentifiedClasses, v \in instances :
       x # v /\ IsOfTypeStrict(World, x, v)
  /\ \E x \in IdentifiedClasses, v \in instances :
       ~IsOfTypeStrict(World, x, v) /\ IsOfType(World, x, v)

---------------------------------------------------------------------------
\* The identification calls a property quantifies over.

EntryPoints == {"withSigil", "withSigilTyped", "WithSigil"}
Identify(ep, w, c, lbl, opts, draws) ==
  CASE ep = "withSigil" -> WithSigilHOF(w, c, lbl, opts, draws)
    [] ep = "withSigilTyped" -> WithSigilTypedHOF(w, c, lbl, opts, draws)
    [] ep = "WithSigil" -> WithSigilDecorator(w, c, lbl, opts, draws)

DrawsOf(lbl) == SeqsOf(RandomStrings, IF lbl = NoLabel THEN 1 ELSE 0)
PassesValidation(lbl, opts) ==
  lbl = NoLabel \/ VerifyLabel(World, lbl, opts).err = "none"

\* the call left every class, the registry and the symbols as they were
Untouched(w) ==
  /\ w.label = label /\ w.type = type /\ w.lineage = lineage
  /\ w.typeSet = typeSet /\ w.decorated = decorated /\ w.sigil = sigil
  /\ w.checked = checked /\ w.registry = registry /\ w.symtab = symtab
  /\ w.options = options

NoOwnMetadata(w, c) ==
  /\ w.label[c] = NoLabel /\ w.type[c] = NoSymbol /\ w.lineage[c] = <<>>
  /\ w.typeSet[c] = {} /\ ~w.decorated[c]

\* C8: two different labels never have the same symbol, and a label has the
\* same symbol at every call: the symbol of every identified class is the one
\* its label resolves to now, classes given the same label hold the same
\* symbol, and so do the classes of a second copy of the library.
C8_LabelSymbolBijection ==
  /\ \A k1, k2 \in DOMAIN symtab : k1 # k2 => symtab[k1] # symtab[k2]
  /\ \A c \in IdentifiedClasses :
       label[c] \in DOMAIN symtab /\ type[c] = symtab[label[c]]
  /\ \A c, d \in IdentifiedClasses : label[c] = label[d] <=> type[c] = type[d]
  /\ \A l \in DOMAIN copyType : copyType[l] = symtab[l]
  /\ \A c \in IdentifiedClasses, l \in DOMAIN copyType :
       label[c] = l <=> type[c] = copyType[l]

C8_Witness ==
  /\ \E c, d \in IdentifiedClasses : c # d /\ label[c] = label[d]
  /\ \E c \in IdentifiedClasses \ {Sigil, SigilError} : label[c] \in DOMAIN copyType
  /\ \E c \in IdentifiedClasses, l \in DOMAIN copyType : label[c] # l

---------------------------------------------------------------------------
\* Properties of the attacher and of the registry.

SameMetadata(w) ==
  /\ w.label = label /\ w.type = type /\ w.lineage = lineage
  /\ w.typeSet = typeSet /\ w.decorated = decorated

AttachLabels == UserLabels \cup {"Sigil", AutoPrefix \o "r1"}

\* C11: whenever decorateCtor raises, on a class already identified or on a
\* duplicate label, the call has bound no label, symbol, lineage, lineage
\* set or decorated mark to any class.
C11_AttachFailsWhole ==
  \A c \in Classes, l \in AttachLabels :
    Exists(c) =>
      LET w == DecorateCtor(World, c, l)
      IN w.err # "none" =>
           /\ w.err \in {"AlreadyDecorated", "DuplicateLabel"}
           /\ SameMetadata(w)

C11_Witness ==
  /\ err = "DuplicateLabel"
  /\ options.registryOn /\ options.devMarker
  /\ \E c \in RegistryClasses :
       /\ NoOwnMetadata(World, c)
       /\ \E l \in DOMAIN registry :
            registry[l] \in RegistryClasses /\ ~SameName(registry[l], c)

\* C12: when the label is present, register skips (raises nothing, leaves
\* the registry as it is) if dev mode is on and the incoming class has the
\* declared name of the class that registered the label, whether or not the
\* registry stored that class; in every other case it raises the
\* duplicate-label error.
C12_LeniencyBySameName ==
  options.registryOn =>
    \A l \in DOMAIN registry, c \in Classes :
      LET w == Register(World, l, c, NoOpts)
      IN IF options.devMarker /\ Name(origin[l].by) = Name(c)
           THEN w.err = "none" /\ w.registry = registry
           ELSE w.err = "DuplicateLabel"

RegistryCalls ==
  {[ep |-> ep, c |-> c, l |-> l, opts |-> opts] :
     ep \in EntryPoints, c \in RegistryClasses,
     l \in {"@t.L1", "@t.L2", NoLabel}, opts \in RegistryOpts}

\* The classes a call identified, and the labels it bound to them.
NewlyDecorated(w) == {d \in Classes : w.decorated[d] /\ ~decorated[d]}
BoundLabels(w) == {w.label[d] : d \in NewlyDecorated(w)}

StoresRefs(opts) == options.storeConstructor /\ Opt(World, opts, "storeConstructor")

\* C14 as stated: after a successful identification with the registry on,
\* the registry has the class's label, get(label) is the class when class
\* references are stored, and size has grown by one.
C14_IdentificationRegisters ==
  options.registryOn =>
    \A k \in RegistryCalls :
      \A draws \in EntryDraws(RandomStrings, k.c, k.l, k.opts) :
        LET w == Identify(k.ep, World, k.c, k.l, k.opts, draws)
        IN w.err = "none" =>
             /\ RegistryHas(w, w.label[k.c])
             /\ StoresRefs(k.opts) => RegistryGet(w, w.label[k.c]) = k.c
             /\ RegistrySize(w) = RegistrySize(World) + 1

\* C14, amended: after a successful identification with the registry on,
\* the registry has the class's label; the entries it held are unchanged and
\* it has gained exactly the labels the call bound (the class's, and those
\* of auto-filled ancestors) that it did not hold; when the class's label
\* is new and class references are stored, get(label) is the class.
C14_IdentificationRegistersNewLabels ==
  options.registryOn =>
    \A k \in RegistryCalls :
      \A draws \in EntryDraws(RandomStrings, k.c, k.l, k.opts) :
        LET w == Identify(k.ep, World, k.c, k.l, k.opts, draws)
        IN w.err = "none" =>
             /\ RegistryHas(w, w.label[k.c])
             /\ ListLabels(w) = ListLabels(World) \cup BoundLabels(w)
             /\ \A l \in ListLabels(World) : RegistryGet(w, l) = RegistryGet(World, l)
             /\ (StoresRefs(k.opts) /\ ~RegistryHas(World, w.label[k.c]))
                  => RegistryGet(w, w.label[k.c]) = k.c
             /\ RegistrySize(w) =
                  RegistrySize(World) + Cardinality(BoundLabels(w) \ ListLabels(World))

C14_Witness ==
  /\ options.registryOn /\ err = "none"
  /\ \E c, d \in RegistryClasses :
       /\ c # d /\ decorated[c] /\ decorated[d] /\ label[c] = label[d]
       /\ RegistryHas(World, label[c]) /\ RegistryGet(World, label[c]) = d
  /\ \E c \in RegistryClasses :
       decorated[c] /\ RegistryHas(World, label[c]) /\ RegistryGet(World, label[c]) = c
          /\ label[c] \in {AutoPrefix \o r : r \in RandomStrings}

C16_PerCallStorageOff ==
  (options.registryOn /\ options.storeConstructor) =>
    \A ep \in EntryPoints, c \in RegistryClasses, l \in UserLabels :
      \A draws \in EntryDraws(RandomStrings, c, l, "storeConstructor" :> FALSE) :
        LET w == Identify(ep, World, c, l, "storeConstructor" :> FALSE, draws)
        IN (w.err = "none" /\ ~RegistryHas(World, l)) =>
             RegistryHas(w, l) /\ RegistryGet(w, l) = NoClass

\* The labels the registry is asked about.
AskedLabels == UserLabels \cup {"Sigil", "SigilError"} \cup {label[c] : c \in Classes}

\* C17: while the registry is disabled it reads as empty: has is false and
\* get is null for every label, listLabels is empty and size is zero, also
\* right after an identification made while it is disabled.
C17_DisabledRegistryReadsEmpty ==
  ~options.registryOn =>
    /\ \A l \in AskedLabels : ~RegistryHas(World, l) /\ RegistryGet(World, l) = NoClass
    /\ ListLabels(World) = {} /\ RegistrySize(World) = 0
    /\ \A k \in RegistryCalls :
         \A draws \in EntryDraws(RandomStrings, k.c, k.l, k.opts) :
           LET w == Identify(k.ep, World, k.c, k.l, k.opts, draws)
           IN ListLabels(w) = {} /\ RegistrySize(w) = 0

C17_Witness ==
  /\ ~options.registryOn /\ err = "none"
  /\ decorated[FirstSub] /\ label[FirstSub] = "@t.L1"
  /\ ~decorated[Reloaded] /\ ~decorated[FirstSub + 1]

\* C18: while the registry is disabled no identification raises the
\* duplicate-label error, whatever labels are in use.
C18_DisabledRegistryNeverDuplicate ==
  ~options.registryOn =>
    \A k \in RegistryCalls :
      \A draws \in EntryDraws(RandomStrings, k.c, k.l, k.opts) :
        Identify(k.ep, World, k.c, k.l, k.opts, draws).err # "DuplicateLabel"

C18_Witness ==
  /\ ~options.registryOn /\ err = "none"
  /\ \E c, d \in RegistryClasses :
       /\ decorated[c] /\ decorated[d] /\ label[c] = label[d]
       /\ ~SameName(c, d)

\* C19 as stated: after replaceRegistry(newMap), old and new registry both
\* present, every label of the old registry is in the new active registry
\* with its class reference, and the registry is enabled.
C19_ReplaceKeepsEntries ==
  options.registryOn =>
    \A reg \in RegistryMaps :
      reg.on =>
        LET w == ReplaceRegistry(World, reg)
        IN w.err = "none" =>
             /\ w.options.registryOn
             /\ \A l \in ListLabels(World) :
                  RegistryHas(w, l) /\ RegistryGet(w, l) = RegistryGet(World, l)

\* C19, amended: a replaceRegistry(newMap) that returns, old and new
\* registry both present, leaves the registry enabled with every entry of
\* newMap as it was and every label of the old registry present; an old
\* label newMap did not hold carries its old class reference when
\* constructor storage is on and no reference when it is off.  A
\* replaceRegistry that raises has raised the duplicate-label error and
\* left options and registry as they were.
C19_ReplaceMergesLabels ==
  options.registryOn =>
    \A reg \in RegistryMaps :
      reg.on =>
        LET w == ReplaceRegistry(World, reg)
        IN IF w.err = "none"
             THEN /\ w.options.registryOn
                  /\ ListLabels(w) = ListLabels(World) \cup DOMAIN reg.map
                  /\ \A l \in DOMAIN reg.map : RegistryGet(w, l) = reg.map[l]
                  /\ \A l \in ListLabels(World) \ DOMAIN reg.map :
                       RegistryGet(w, l) =
                         IF options.storeConstructor THEN RegistryGet(World, l)
                         ELSE NoClass
             ELSE /\ w.err = "DuplicateLabel"
                  /\ w.registry = registry /\ w.options = options

C19_Witness ==
  /\ options.registryOn /\ err = "none"
  /\ RegistryHas(World, "Sigil") /\ RegistryGet(World, "Sigil") = NoClass
  /\ RegistryHas(World, "@t.L1") /\ RegistryGet(World, "@t.L1") = Reloaded
  /\ decorated[FirstSub] /\ ~decorated[Reloaded]

\* C20: unregister(label) returns whether the label was present and removes
\* that entry only; clear() removes every entry; on an absent label or a
\* disabled registry both leave the registry as it is; neither touches the
\* identity metadata of any class.
C20_UnregisterAndClear ==
  /\ \A l \in AskedLabels :
       LET r == Unregister(World, l)
       IN /\ r.result = RegistryHas(World, l)
          /\ ListLabels(r.w) = ListLabels(World) \ {l}
          /\ \A k \in ListLabels(r.w) : RegistryGet(r.w, k) = RegistryGet(World, k)
          /\ ~RegistryHas(World, l) => r.w.registry = registry
          /\ ~options.registryOn => ~r.result /\ r.w.registry = registry
          /\ SameMetadata(r.w) /\ r.w.options = options /\ r.w.err = "none"
  /\ LET w == Clear(World)
     IN /\ ListLabels(w) = {} /\ RegistrySize(w) = 0
        /\ ~options.registryOn => w.registry = registry
        /\ SameMetadata(w) /\ w.options = options /\ w.err = "none"

C20_Witness ==
  /\ options.registryOn
  /\ RegistryHas(World, "Sigil") /\ RegistryHas(World, "SigilError")
  /\ decorated[FirstSub] /\ label[FirstSub] = "@t.L1"
  /\ ~decorated[Reloaded]
  /\ ~RegistryHas(World, "@t.L1")

---------------------------------------------------------------------------
\* Properties of the validator.

\* The options a checkInheritance call may be given, and the draws it may use.
CheckOpts == ValidateOpts \cup Flag("devMarker")
CheckDraws(c, opts) == SeqsOf(RandomStrings, AutofillDraws(c, opts))

\* checkInheritance(c, opts) gets past its early returns.
ValidatorRuns(c, opts) ==
  /\ Opt(World, opts, "devMarker") /\ IsSigilCtor(World, c)
  /\ ~IsInheritanceChecked(World, c)
  /\ ~Opt(World, opts, "skipLabelInheritanceCheck")

\* The classes the validator of c walks: c and its sigil ancestors.
ChainOf(c) == Range(<<c>> \o SigilAncestors(World, ParentOf(c)))

\* Class d of the chain of c carries the label of a more basal class of the
\* chain, and was explicitly identified or auto-fill is off.
FatalCollision(c, opts) ==
  \E d \in ChainOf(c) :
    /\ \E a \in ChainOf(c) \cap AncestorsOf(d) :
         GetLabel(World, d) = GetLabel(World, a)
    /\ IsDecorated(World, d) \/ ~Opt(World, opts, "autofillLabels")

HealStrings == {"r1", "r2", "r3", "r4"}
HealDraws(c) == SeqsOf(HealStrings, AutofillDraws(c, NoOpts))
FreshDraws(c) ==
  {d \in HealDraws(c) :
     /\ \A i \in DOMAIN d : \A k \in Classes : label[k] # AutoPrefix \o d[i]
     /\ \A i, j \in DOMAIN d : d[i] = d[j] => i = j}

\* Class c has its own label, no sigil ancestor carries it, and the parent
\* of c recognises an instance of c.
Healed(w, c) ==
  /\ w.decorated[c] /\ w.label[c] # NoLabel
  /\ \A a \in AncestorsOf(c) : IsSigilCtor(w, a) => GetLabel(w, a) # w.label[c]
  /\ IsOfType(w, ParentOf(c), c)

\* C22 as stated: in dev mode with auto-fill on, once new c() has returned
\* for a subclass c that was never identified, c carries its own label,
\* different from the label of its parent and of every other ancestor, and
\* parent.isOfType(instance of c) holds.
C22_AutofillHeals ==
  (options.devMarker /\ options.autofillLabels) =>
    \A c \in SubClasses :
      ~decorated[c] =>
        \A draws \in HealDraws(c) :
          LET w == Construct(World, c, draws)
          IN w.err = "none" => Healed(w, c)

\* C22 with the inheritance check in force (skipLabelInheritanceCheck not
\* set), for every outcome of the random string generator: once new c() has
\* returned for a subclass c that was never identified, c carries its own
\* label, different from the label of every ancestor, and
\* parent.isOfType(instance of c) holds.
C22_AutofillHealsChecked ==
  (options.devMarker /\ options.autofillLabels
     /\ ~options.skipLabelInheritanceCheck) =>
    \A c \in SubClasses :
      ~decorated[c] =>
        \A draws \in HealDraws(c) :
          LET w == Construct(World, c, draws)
          IN w.err = "none" => Healed(w, c)

\* What does hold of the healing (C22): when the inheritance check is not
\* skipped and the generated labels are not in use, new c() raises the
\* ancestor collision or returns with c healed and validated.
C22_AutofillHealsUnlessSkipped ==
  (options.devMarker /\ options.autofillLabels
     /\ ~options.skipLabelInheritanceCheck) =>
    \A c \in SubClasses :
      ~decorated[c] =>
        \A draws \in FreshDraws(c) :
          LET w == Construct(World, c, draws)
          IN /\ w.err \in {"none", "AncestorCollision"}
             /\ w.err = "none" => Healed(w, c) /\ w.checked[c]

C22_Witness ==
  /\ options.devMarker /\ options.autofillLabels /\ err = "none"
  /\ ~options.skipLabelInheritanceCheck
  /\ \E c \in SubClasses :
       /\ c \in instances /\ checked[c] /\ Healed(World, c)
       /\ label[c] \in {AutoPrefix \o r : r \in RandomStrings}
       /\ decorated[ParentOf(c)] /\ label[ParentOf(c)] = "@t.L1"

\* Some class of the chain of c carries the label of a more basal one.
ChainCollides(c) ==
  \E d \in ChainOf(c) :
    \E a \in ChainOf(c) \cap AncestorsOf(d) :
      GetLabel(World, d) = GetLabel(World, a)

\* C23: checkInheritance returns the state it was given (no error, no
\* label, no registry entry, no validated mark changed) when dev checks are
\* off, when the class is already validated or when the skip option is set,
\* globally or for the call, whatever collisions the chain holds.
C23_ValidatorNoOp ==
  \A c \in Classes, opts \in CheckOpts :
    (Exists(c) /\ ~ValidatorRuns(c, opts)) =>
      \A draws \in HealDraws(c) \cup {<<>>} :
        LET w == CheckInheritance(World, c, opts, draws)
        IN /\ w.err = "none"
           /\ SameMetadata(w) /\ w.checked = checked
           /\ w.registry = registry /\ w.symtab = symtab
           /\ w.options = options

C23_Witness ==
  /\ err = "none"
  /\ ~options.devMarker \/ options.skipLabelInheritanceCheck
  /\ \E c \in SubClasses :
       /\ c \in instances /\ ~decorated[c] /\ ~checked[c]
       /\ ChainCollides(c)
  /\ \E c \in SubClasses : checked[c]

\* C24: every step takes each class forward only: a class that has its own
\* identity metadata keeps it unchanged, a validated mark stays, and a
\* class is marked validated only when it has its own identity metadata.
C24_ClassMovesForward ==
  /\ [](\A c \in Classes : checked[c] => decorated[c] /\ label[c] # NoLabel)
  /\ [][\A c \in Classes :
          /\ decorated[c] =>
               /\ decorated'[c]
               /\ label'[c] = label[c] /\ type'[c] = type[c]
               /\ lineage'[c] = lineage[c] /\ typeSet'[c] = typeSet[c]
          /\ checked[c] => checked'[c]
          /\ ~decorated[c] => (label[c] = NoLabel /\ type[c] = NoSymbol)]_vars

C24_Witness ==
  /\ \E c \in SubClasses :
       /\ decorated[c] /\ checked[c] /\ c \in instances
       /\ label[c] \in {AutoPrefix \o r : r \in RandomStrings}
  /\ \E c \in SubClasses : decorated[c] /\ ~checked[c] /\ label[c] = "Sigil"
  /\ err = "AlreadyDecorated"

---------------------------------------------------------------------------
\* Properties of the entry points.

\* C25: withSigil, withSigilTyped, typed and the WithSigil decorator on a
\* class that does not descend from a sigilified base, and Sigilify on a
\* sigil class, each raise and leave the registry, the symbols, the options
\* and every class as they were.
C25_MisapplicationRejected ==
  /\ \A c \in Classes, l \in EntryLabels, opts \in EntryOpts :
       (Exists(c) /\ ~IsSigilCtor(World, c)) =>
         /\ \A ep \in EntryPoints, draws \in DrawsOf(l) :
              LET w == Identify(ep, World, c, l, opts, draws)
              IN w.err \in {"NotSigil", "InvalidLabel"} /\ Untouched(w)
         /\ LET w == Typed(World, c, l, opts)
            IN w.err = "NotSigil" /\ Untouched(w)
  /\ \A base \in Classes, l \in EntryLabels, opts \in EntryOpts :
       (Exists(base) /\ IsSigilCtor(World, base)) =>
         \A draws \in DrawsOf(l) :
           LET w == Sigilify(World, base, Root, l, opts, draws)
           IN w.err = "AlreadySigilified" /\ Untouched(w)

C25_Witness ==
  /\ err = "NotSigil"
  /\ NoOwnMetadata(World, Plain) /\ ~sigil[Plain]
  /\ \A l \in DOMAIN registry : registry[l] # Plain
  /\ decorated[FirstSub]

\* Label l fails the rule in force for a call given opts: the rule of the
\* call, or the global one when the call gives none.
FailsRule(l, opts) ==
  /\ ~MatchesDefaultRegex(l)
  /\ IF "labelValidation" \in DOMAIN opts THEN opts["labelValidation"] # "none"
     ELSE options.labelValidation # "none"

\* C26: identifying a sigil class (or sigilifying a plain base) with an
\* explicit label that fails the validation rule in force, the global rule
\* or the one given with the call, raises the invalid-label error and
\* leaves the registry, the symbols and every class as they were.
C26_InvalidLabelRejected ==
  \A l \in EntryLabels \ {NoLabel}, opts \in EntryOpts :
    FailsRule(l, opts) =>
      /\ \A c \in Classes, ep \in EntryPoints :
           (Exists(c) /\ IsSigilCtor(World, c)) =>
             LET w == Identify(ep, World, c, l, opts, <<>>)
             IN w.err = "InvalidLabel" /\ Untouched(w)
      /\ ~Exists(Root) =>
           LET w == Sigilify(World, Plain, Root, l, opts, <<>>)
           IN w.err = "InvalidLabel" /\ Untouched(w)

C26_Witness ==
  /\ err = "InvalidLabel"
  /\ options.labelValidation = "default"
  /\ options.registryOn
  /\ NoOwnMetadata(World, FirstSub)

\* C27 as stated: on the same class, label, options and state, withSigil,
\* withSigilTyped and the WithSigil decorator end alike: the same error or
\* success, the same metadata, registry and validated marks.
C27_EntryPointsAgree ==
  \A c \in Classes, l \in EntryLabels, opts \in EntryOpts :
    Exists(c) =>
      \A draws \in EntryDraws(RandomStrings, c, l, opts) :
        \A ep1, ep2 \in EntryPoints :
          Identify(ep1, World, c, l, opts, draws)
            = Identify(ep2, World, c, l, opts, draws)

\* C27, amended: they end in the same state, and with the same error or
\* success except on a class that is not a sigil class given a label that
\* fails validation, where the decorator raises the invalid-label error and
\* the two functions the not-a-sigil-class error.
C27_EntryPointsAgreeOnSigilClasses ==
  \A c \in Classes, l \in EntryLabels, opts \in EntryOpts :
    Exists(c) =>
      \A draws \in EntryDraws(RandomStrings, c, l, opts) :
        LET hof == Identify("withSigil", World, c, l, opts, draws)
            hofTyped == Identify("withSigilTyped", World, c, l, opts, draws)
            decorator == Identify("WithSigil", World, c, l, opts, draws)
        IN /\ hof = hofTyped
           /\ [decorator EXCEPT !.err = "none"] = [hof EXCEPT !.err = "none"]
           /\ IF ~IsSigilCtor(World, c) /\ ~PassesValidation(l, opts)
                THEN hof.err = "NotSigil" /\ decorator.err = "InvalidLabel"
                ELSE decorator.err = hof.err

C27_Witness ==
  /\ options.labelValidation = "default"
  /\ err = "NotSigil"
  /\ \E c \in {Root, FirstSub} : decorated[c] /\ checked[c] /\ label[c] = "@t.L1"

---------------------------------------------------------------------------
\* Properties of updateOptions.

\* The arguments of an updateOptions call: no field, one or two plain
\* fields, each with or without a registry.
FieldUpdates ==
  {NoOpts} \cup Flag("devMarker") \cup Flag("autofillLabels")
    \cup {("devMarker" :> b) @@ ("storeConstructor" :> d) : b, d \in BOOLEAN}
UpdateArgs ==
  FieldUpdates \cup {("registry" :> reg) @@ f : reg \in RegistryMaps, f \in FieldUpdates}

\* The option fields an argument gives, in the names of the model.
GivenFields(opts) ==
  {IF f = "registry" THEN "registryOn" ELSE f : f \in DOMAIN opts}

\* C28: an updateOptions call that returns has applied every field it was
\* given; one that raises has raised the duplicate-label error of the merge
\* and left every option field, the active registry and its entries as
\* they were.
C28_UpdateOptionsAllOrNothing ==
  \A opts \in UpdateArgs, mergeRegistries \in BOOLEAN :
    LET w == UpdateOptions(World, opts, mergeRegistries)
    IN IF w.err = "none"
         THEN /\ \A f \in DOMAIN opts \ {"registry"} : w.options[f] = opts[f]
              /\ "registry" \in DOMAIN opts =>
                   /\ w.options.registryOn = opts["registry"].on
                   /\ \A l \in DOMAIN opts["registry"].map :
                        RegistryGet(w, l) = opts["registry"].map[l]
         ELSE /\ w.err = "DuplicateLabel"
              /\ mergeRegistries /\ "registry" \in DOMAIN opts
              /\ w.options = options /\ w.registry = registry

C28_Witness ==
  /\ err = "DuplicateLabel"
  /\ \A c \in RegistryClasses : decorated[c]
  /\ options.registryOn
  /\ RegistryHas(World, "@t.L1") /\ RegistryGet(World, "@t.L1") # Reloaded

\* C29: updateOptions changes the option fields its argument gives and no
\* other; without a registry in the argument the registry stays; and the
\* identity metadata and the validated mark of every class stay.
C29_UpdateOptionsMerges ==
  \A opts \in UpdateArgs, mergeRegistries \in BOOLEAN :
    LET w == UpdateOptions(World, opts, mergeRegistries)
    IN /\ \A f \in DOMAIN options \ GivenFields(opts) : w.options[f] = options[f]
       /\ "registry" \notin DOMAIN opts => w.registry = registry
       /\ SameMetadata(w) /\ w.checked = checked /\ w.sigil = sigil
       /\ w.symtab = symtab

C29_Witness ==
  /\ options.autofillLabels /\ options.skipLabelInheritanceCheck
  /\ ~options.registryOn /\ err = "none"
  /\ \E c \in SubClasses : decorated[c] /\ checked[c]

---------------------------------------------------------------------------
\* C30: with the registry exposed in the global slot (the default), a second
\* copy of the library loaded in the same process uses the registry of the
\* first: every label the first copy registered is still in the registry
\* the global slot holds, the second copy's registry reports every label
\* identified through the first and the first copy's every label identified
\* through the second, and a class of another name claiming a label of the
\* first copy through the second is rejected as a duplicate.

\* The labels of the registry globalThis[__SIGIL_REGISTRY__] holds.
GlobalLabels ==
  IF globalRegistry = "first" THEN DOMAIN registry
  ELSE IF globalRegistry = "second" THEN DOMAIN copy.registry
  ELSE {}

C30_CopiesShareRegistry ==
  (copy.loaded /\ options.useGlobalRegistry /\ options.registryOn) =>
    /\ DOMAIN registry \subseteq GlobalLabels
    /\ DOMAIN registry = DOMAIN copy.registry
    /\ \A l \in DOMAIN registry :
         (registry[l] = NoClass \/ Name(registry[l]) # SecondCopyName) =>
           SecondCopyDecorate(copy, symtab, l, SecondCopyName).err
             = "DuplicateLabel"

---------------------------------------------------------------------------
\* C31: the lineage and lineage-set accessors, static and of an instance,
\* return defensive copies: whatever a caller does to an array or a set an
\* accessor returned, just now or earlier, no class's stored lineage or
\* lineage set changes, and every later accessor, isOfType and
\* isOfTypeStrict call gives what it gave before.

SigilClassesNow == {c \in Classes : Exists(c) /\ IsSigilCtor(World, c)}
MutationSymbols == {ForeignSymbol, symtab["SigilError"]}

\* The arrays and sets a caller may hold: the one it kept, and what each
\* accessor returns now.
HeldArrays ==
  {held.array} \cup {SigilTypeLineage(World, c) : c \in SigilClassesNow}
    \cup {GetSigilTypeLineage(World, v) : v \in instances}
HeldSets ==
  {held.set} \cup {SigilTypeSet(World, c) : c \in SigilClassesNow}
    \cup {GetSigilTypeSet(World, v) : v \in instances}

\* Every query answers in w what it answers now.
SameAnswers(w) ==
  /\ w.lineage = lineage /\ w.typeSet = typeSet
  /\ \A c \in SigilClassesNow :
       /\ SigilTypeLineage(w, c).items = GetLineage(World, c)
       /\ SigilTypeSet(w, c).items = GetTypeSet(World, c)
       /\ \A v \in instances :
            /\ IsOfType(w, c, v) = IsOfType(World, c, v)
            /\ IsOfTypeStrict(w, c, v) = IsOfTypeStrict(World, c, v)
  /\ \A v \in instances :
       /\ GetSigilTypeLineage(w, v).items = GetLineage(World, v)
       /\ GetSigilTypeSet(w, v).items = GetTypeSet(World, v)

C31_AccessorsReturnCopies ==
  /\ \A h \in HeldArrays, op \in ArrayOps, s \in MutationSymbols :
       SameAnswers(MutateArray(World, h, op, s))
  /\ \A h \in HeldSets, op \in SetOps, s \in MutationSymbols :
       SameAnswers(MutateSet(World, h, op, s))

\* The caller holds an array read on an identified subclass of which an
\* instance exists, and has changed it.
C31_Witness ==
  /\ held.array.from \in instances
  /\ decorated[held.array.from]
  /\ held.array.items # GetLineage(World, held.array.from)

---------------------------------------------------------------------------
\* C32: queries consult only class metadata: for every class and every
\* value, isOfType, isOfTypeStrict and the label, symbol, lineage and
\* lineage-set accessors answer the same after unregister, clear,
\* replaceRegistry, disabling the registry or updateOptions as before, and
\* the same in the state that differs from this one only in having an empty
\* registry and the initial options.

\* What every query answers in w.
Answers(w) ==
  [c \in SigilClassesNow |->
     [label |-> GetLabel(w, c), type |-> GetType(w, c),
      lineage |-> SigilTypeLineage(w, c).items,
      set |-> SigilTypeSet(w, c).items,
      isOfType |-> [v \in Values |-> IsOfType(w, c, v)],
      isOfTypeStrict |-> [v \in Values |-> IsOfTypeStrict(w, c, v)],
      ofInstance |->
        IF c \in instances
          THEN <<GetLabel(w, GetConstructor(c)), GetType(w, GetConstructor(c)),
                 GetSigilTypeLineage(w, c).items, GetSigilTypeSet(w, c).items>>
          ELSE <<>>]]

\* The states the registry and option calls lead to from this one.
QueryUpdates ==
  Flag("devMarker") \cup Flag("useGlobalRegistry")
    \cup {"registry" :> reg : reg \in RegistryMaps}
AfterRegistryCalls ==
  {Unregister(World, l).w : l \in DOMAIN registry \cup UserLabels}
    \cup {Clear(World)}
    \cup {ReplaceRegistry(World, reg) : reg \in RegistryMaps}
    \cup {UpdateOptions(World, opts, m) : opts \in QueryUpdates, m \in BOOLEAN}
    \cup {[World EXCEPT !.registry = <<>>, !.origin = <<>>,
                        !.options = InitialOptions, !.global = "none"]}

C32_QueriesReadMetadataOnly ==
  \A w \in AfterRegistryCalls : Answers(w) = Answers(World)

\* An instance of an identified subclass exists, and the label of its class
\* is no longer in the registry.
C32_Witness ==
  \E c \in instances :
    /\ decorated[c] /\ label[c] \notin DOMAIN registry
    /\ IsOfType(World, c, c) /\ IsOfType(World, Sigil, c)

---------------------------------------------------------------------------
\* C33: in every reachable state the lineage set of each identified class
\* holds exactly the symbols of its lineage array, the last of which is the
\* class's own symbol; and no step changes the own label, symbol or lineage
\* a class already has, whether the step identifies another class,
\* validates, auto-fills, or changes the registry or the options.
C33_MetadataFrozen ==
  /\ [](\A c \in Classes :
          decorated[c] =>
            /\ typeSet[c] = Range(lineage[c])
            /\ lineage[c] # <<>> /\ lineage[c][Len(lineage[c])] = type[c])
  /\ [][\A c \in Classes :
          /\ label[c] # NoLabel => label'[c] = label[c]
          /\ type[c] # NoSymbol => type'[c] = type[c]
          /\ lineage[c] # <<>> => lineage'[c] = lineage[c]]_vars

\* A subclass was identified before its parent got a label by auto-fill, the
\* registry has been emptied since, and an instance of the subclass exists.
C33_Witness ==
  \E c \in SubClasses :
    /\ decorated[c] /\ decorated[ParentOf(c)] /\ ParentOf(c) \in SubClasses
    /\ label[ParentOf(c)] \in {AutoPrefix \o r : r \in RandomStrings}
    /\ c \in instances
    /\ label[c] \notin DOMAIN registry

---------------------------------------------------------------------------
\* C34: whatever strings the random string generator returns, the same one
\* twice included, the label generateRandomLabel returns is not a key of the
\* active registry.
C34_GeneratedLabelUnregistered ==
  \A draws \in SeqsOf(RandomStrings, 1) \cup SeqsOf(RandomStrings, 2) :
    LET r == GenerateRandomLabel(World, draws)
    IN r.label # NoLabel => ~RegistryHas(World, r.label)

---------------------------------------------------------------------------
\* C35: while a label validation rule is in force, the global one or one
\* given with the call, every label an identification call binds to a class
\* passes the rule: the explicit label, the label generated when the label
\* is left out, and the labels auto-fill assigns on a collision.
C35_BoundLabelsPassRule ==
  \A c \in Classes, ep \in EntryPoints, l \in EntryLabels, opts \in EntryOpts :
    (Exists(c) /\ Opt(World, opts, "labelValidation") # "none") =>
      \A draws \in EntryDraws(RandomStrings, c, l, opts) :
        LET w == Identify(ep, World, c, l, opts, draws)
        IN \A d \in NewlyDecorated(w) : MatchesDefaultRegex(w.label[d])

---------------------------------------------------------------------------
\* C36: a checkInheritance(c) call in dev mode, the check not skipped, that
\* returns leaves the identified classes of the chain of c, c and its sigil
\* ancestors, with pairwise distinct labels and c marked validated; one that
\* raises leaves c not marked, so that the next instantiation walks again.
C36_ValidatedChainDistinct ==
  \A c \in SubClasses, opts \in CheckOpts :
    ValidatorRuns(c, opts) =>
      \A draws \in CheckDraws(c, opts) :
        LET w == CheckInheritance(World, c, opts, draws)
        IN /\ w.err = "none" =>
                /\ w.checked[c]
                /\ \A a, b \in ChainOf(c) :
                     (a # b /\ w.decorated[a] /\ w.decorated[b])
                       => w.label[a] # w.label[b]
           /\ w.err # "none" => ~w.checked[c]

---------------------------------------------------------------------------
\* Properties of an entry point whose validation raises.

\* The identification calls on the subclasses the validator claims range over.
CollisionCalls ==
  {[ep |-> ep, c |-> c, l |-> l, opts |-> opts] :
     ep \in EntryPoints, c \in SubClasses,
     l \in ValidateLabels \cup {NoLabel}, opts \in ValidateOpts}
CallDraws(k) == EntryDraws(RandomStrings, k.c, k.l, k.opts)

\* Class c got its own identity metadata from the call that led to w.
AttachedBy(w, c) ==
  /\ ~decorated[c] /\ w.decorated[c]
  /\ w.label[c] # NoLabel /\ w.type[c] = w.symtab[w.label[c]]
  /\ w.lineage[c] # <<>> /\ w.typeSet[c] = Range(w.lineage[c])

\* The same call again, in the state the failed call left, raises the
\* re-identification error and changes nothing.
RetryRejected(w, k) ==
  LET w0 == [w EXCEPT !.err = "none"]
  IN \A draws \in SeqsOf(RandomStrings, 2) :
       LET r == Identify(k.ep, w0, k.c, k.l, k.opts, draws)
       IN r.err = "AlreadyDecorated" /\ r.label = w.label
            /\ r.registry = w.registry

\* C37 as stated: when an entry point raises the ancestor-collision error of
\* the validator, the class it was applied to carries its own identity
\* metadata, its label is a key of the registry, and the same call again
\* raises the re-identification error.
C37_AttachSurvivesCollision ==
  \A k \in CollisionCalls : \A draws \in CallDraws(k) :
    LET w == Identify(k.ep, World, k.c, k.l, k.opts, draws)
    IN w.err = "AncestorCollision" =>
         /\ AttachedBy(w, k.c)
         /\ w.label[k.c] \in DOMAIN w.registry
         /\ RetryRejected(w, k)

\* C37, amended: the label is a key of the registry when a registry is
\* active.
C37_AttachSurvivesCollisionRegistryOn ==
  \A k \in CollisionCalls : \A draws \in CallDraws(k) :
    LET w == Identify(k.ep, World, k.c, k.l, k.opts, draws)
    IN w.err = "AncestorCollision" =>
         /\ AttachedBy(w, k.c)
         /\ w.options.registryOn => w.label[k.c] \in DOMAIN w.registry
         /\ ~w.options.registryOn => w.registry = <<>>
         /\ RetryRejected(w, k)

\* withSigil raised the ancestor-collision error on a subclass of a class
\* never identified: the subclass is identified and registered, not
\* validated, and no instance of it exists.
C37_Witness ==
  /\ err = "AncestorCollision" /\ options.registryOn
  /\ \E c \in SubClasses :
       /\ decorated[c] /\ ~checked[c] /\ c \notin instances
       /\ label[c] = "@t.L1" /\ label[c] \in DOMAIN registry
       /\ ParentOf(c) \in SubClasses /\ ~decorated[ParentOf(c)]
       /\ \A d \in SubClasses \ {c} : ~decorated[d]

---------------------------------------------------------------------------
\* C38: a subclass declared without an entry point, as long as no validation
\* has identified it, reports the label, symbol, lineage and lineage set its
\* parent reports, so that it recognises the instances of its parent and
\* its parent recognises its instances.  With dev mode off this lasts:
\* no instantiation and no identification of another class, made without
\* options of its own, identifies it.  In dev mode with auto-fill on and
\* the check not skipped it ends with the first instantiation that returns.
LazyCalls ==
  {[ep |-> ep, c |-> d, l |-> l, opts |-> NoOpts] :
     ep \in EntryPoints, d \in SubClasses, l \in ChainLabels}

C38_UndecoratedSubclassReportsParent ==
  \A c \in SubClasses :
    ~decorated[c] =>
      /\ GetLabel(World, c) = GetLabel(World, ParentOf(c))
      /\ GetLabel(World, c) # NoLabel
      /\ GetType(World, c) = GetType(World, ParentOf(c))
      /\ SigilTypeLineage(World, c).items
           = SigilTypeLineage(World, ParentOf(c)).items
      /\ SigilTypeSet(World, c).items = SigilTypeSet(World, ParentOf(c)).items
      /\ ParentOf(c) \in instances => IsOfType(World, c, ParentOf(c))
      /\ c \in instances => IsOfType(World, ParentOf(c), c)
      /\ ~options.devMarker =>
           /\ \A d \in SubClasses :
                LET w == Construct(World, d, <<>>)
                IN w.err = "none" /\ ~w.decorated[c]
           /\ \A k \in LazyCalls : \A draws \in CallDraws(k) :
                k.c # c =>
                  ~Identify(k.ep, World, k.c, k.l, k.opts, draws).decorated[c]
      /\ (options.devMarker /\ options.autofillLabels
            /\ ~options.skipLabelInheritanceCheck) =>
           \A draws \in CheckDraws(c, NoOpts) :
             LET w == Construct(World, c, draws)
             IN w.err = "none" => w.decorated[c] /\ w.checked[c]

\* Dev mode is off, and instances exist of a subclass never identified and
\* of its parent, which was identified with a label of its own.
C38_Witness ==
  /\ ~options.devMarker
  /\ \E c \in SubClasses :
       /\ ~decorated[c] /\ c \in instances
       /\ ParentOf(c) \in instances /\ decorated[ParentOf(c)]
       /\ label[ParentOf(c)] \in UserLabels

---------------------------------------------------------------------------
\* C39: as long as a registry is active and nothing was unregistered or
\* cleared, and the registry was neither disabled nor replaced without a
\* merge, the label of every class that carries its own identity metadata
\* is a key of the active registry.
C39_IdentifiedLabelsRegistered ==
  /\ options.registryOn
  /\ \A c \in Classes :
       (Exists(c) /\ decorated[c]) => label[c] \in DOMAIN registry

\* The registry was replaced by one that brought an entry of its own, the
\* entries of the old one were merged into it, and a class was identified
\* by auto-fill.
C39_Witness ==
  /\ "@t.L1" \in DOMAIN registry /\ registry["@t.L1"] = Reloaded
  /\ ~decorated[Reloaded]
  /\ \E c \in RegistryClasses :
       decorated[c] /\ label[c] \in {AutoPrefix \o r : r \in RandomStrings}
  /\ \E c \in RegistryClasses : decorated[c] /\ label[c] = "@t.L2"

===========================================================================
